---- MODULE Spec2Model ----
(***************************************************************************)
(* The admin "Nodes" page of argon-ui (src/src/pages/[admin]/Nodes.tsx) as *)
(* a state machine: the React state of AdminNodesPage, the panel server    *)
(* behind its REST calls, and every asynchronous handler as a call record  *)
(* that remembers the values its closure captured when it was started.     *)
(***************************************************************************)
EXTENDS Integers, Sequences, FiniteSets, TLC

VARIABLES
    srvNodes,             \* server: ids of the nodes that exist
    srvPool,              \* server: node id -> its allocations, in creation order
    srvServers,           \* server: the workload list behind GET /api/servers
    nodes,                \* useState nodes
    loading,              \* useState loading
    view,                 \* useState view
    selectedNode,         \* useState selectedNode (NoNode is null)
    activeTab,            \* useState activeTab
    selectedAllocations,  \* useState selectedAllocations
    alerts,               \* useState alerts
    allocationPagination, \* useState allocationPagination
    allocationFormData,   \* useState allocationFormData
    allocationFormMode,   \* useState allocationFormMode
    allocationFormError,  \* useState allocationFormError ("" is null)
    isCreatingAllocation, \* useState isCreatingAllocation
    calls,                \* the asynchronous handler invocations in progress
    searchBar,            \* SearchBar.tsx: the search widget's useState values
    formData              \* the users page's useState formData

vars == <<srvNodes, srvPool, srvServers, nodes, loading, view, selectedNode,
          activeTab, selectedAllocations, alerts, allocationPagination,
          allocationFormData, allocationFormMode, allocationFormError,
          isCreatingAllocation, calls, searchBar, formData>>

----------------------------------------------------------------------------
(* Bounds of the model.                                                    *)

\* Page size of the allocation pager.  The page keeps limit: 10; the model
\* scales it down so that a pool of a few allocations spans several pages.
PageLimit == 2

\* Handler invocations that may be in progress at the same time.
MaxCalls == 2

\* Notices that may be on screen at the same time.
MaxAlerts == 2

\* Longest server list a refresh is tried on.
MaxServers == 2

\* Longest allocation list, largest page size and highest page the pager is
\* tried on.
MaxLen == 4

MaxLimit == 3

MaxPage == 3

NodeIds == {1, 2}

OnlineNodes == {1}

\* The tabs of the node view; "servers" and "configure" are not modelled: no
\* code of the page tells them from "overview".
Tabs == {"overview", "allocations"}

\* The allocations the workload owner may bind while the page is open.
Bindable == {2}

----------------------------------------------------------------------------
(* Arithmetic and sequence helpers.                                        *)

Max(a, b) == IF a >= b THEN a ELSE b

Min(a, b) == IF a <= b THEN a ELSE b

\* Math.ceil(a / b) for a >= 0, b >= 1.
Ceil(a, b) == (a + b - 1) \div b

\* Array.prototype.slice(start, end): 0-based, end exclusive, negative
\* indices count from the end, both clamped to the array.
Slice(s, start, end) ==
    LET n  == Len(s)
        lo == IF start < 0 THEN Max(n + start, 0) ELSE Min(start, n)
        hi == IF end < 0 THEN Max(n + end, 0) ELSE Min(end, n)
    IN  IF lo >= hi THEN <<>> ELSE SubSeq(s, lo + 1, hi)

RECURSIVE SeqSum(_)
SeqSum(s) == IF s = <<>> THEN 0 ELSE Head(s) + SeqSum(Tail(s))

Ids(s) == [i \in 1..Len(s) |-> s[i].id]

Range(s) == {s[i] : i \in 1..Len(s)}

\* Array.prototype.includes
Includes(s, x) == \E i \in 1..Len(s) : s[i] = x

----------------------------------------------------------------------------
(* The partitioned pager of renderAllocationTab.                           *)

IsAssigned(a) == a.assigned

IsUnassigned(a) == ~a.assigned

assignedAllocations(allocations) == SelectSeq(allocations, IsAssigned)

RECURSIVE Reversed(_)
Reversed(s) == IF s = <<>> THEN <<>> ELSE Append(Reversed(Tail(s)), Head(s))

UnassignedNewestFirst(allocations) == Reversed(SelectSeq(allocations, IsUnassigned))

unassignedAllocations(allocations) == SelectSeq(allocations, IsUnassigned)

paginatedAssigned(allocations, pag) ==
    Slice(assignedAllocations(allocations),
          (pag.page - 1) * pag.limit,
          pag.page * pag.limit)

PaginatedUnassignedPerGroup(allocations, pag) ==
    Slice(unassignedAllocations(allocations),
          (pag.page - 1) * pag.limit,
          pag.page * pag.limit)

paginatedUnassigned(allocations, pag) ==
    Slice(unassignedAllocations(allocations),
          Max(0, (pag.page - 1) * pag.limit - Len(assignedAllocations(allocations))),
          Max(0, pag.page * pag.limit - Len(assignedAllocations(allocations))))

showAssigned(allocations, pag) ==
    (pag.page - 1) * pag.limit < Len(assignedAllocations(allocations))

ShowUnassignedFromNextPage(allocations, pag) ==
    (pag.page - 1) * pag.limit >= Len(assignedAllocations(allocations))

showUnassigned(allocations, pag) ==
    pag.page * pag.limit > Len(assignedAllocations(allocations))

\* The rows of the "In Use" group on the current page.
DisplayedAssigned(allocations, pag) ==
    IF showAssigned(allocations, pag) /\ Len(assignedAllocations(allocations)) > 0
    THEN paginatedAssigned(allocations, pag)
    ELSE <<>>

\* The rows of the "Available" group on the current page.
DisplayedUnassigned(allocations, pag) ==
    IF showUnassigned(allocations, pag) /\ Len(unassignedAllocations(allocations)) > 0
    THEN paginatedUnassigned(allocations, pag)
    ELSE <<>>

Displayed(allocations, pag) ==
    DisplayedAssigned(allocations, pag) \o DisplayedUnassigned(allocations, pag)

\* renderPagination: the number of pages and the numbered page buttons.
totalPages(pag) == Max(1, Ceil(pag.total, pag.limit))

pageNum(pag, i) ==
    IF totalPages(pag) <= 5 THEN i + 1
    ELSE IF pag.page <= 3 THEN i + 1
    ELSE IF pag.page >= totalPages(pag) - 2 THEN totalPages(pag) - 4 + i
    ELSE pag.page - 2 + i

\* Every page an enabled paging control can pass to onPageChange.
PageButtons(pag) ==
    {pageNum(pag, i) : i \in 0..(Min(5, totalPages(pag)) - 1)}
    \cup (IF pag.page = 1 THEN {} ELSE {Max(1, pag.page - 1)})
    \cup (IF pag.page = totalPages(pag) THEN {}
          ELSE {Min(totalPages(pag), pag.page + 1)})

----------------------------------------------------------------------------
(* Values.                                                                 *)

\* An absent optional field (resources?, diskMiB?) is the empty sequence and
\* a present one a one-element sequence; systemState is "undefined" (field
\* absent), "null" (the probe failed) or "state" (the probe's answer).
Absent == <<>>

\* The form's data after setAllocationFormData({ bindAddress: '0.0.0.0' }).
\* alias and notes are free text the page only passes on.
EmptyForm == [bindAddress |-> "0.0.0.0", port |-> Absent, portRange |-> Absent]

\* The ports the model's allocations use, and the addresses they bind.
Ports == 25565..25567

BindAddresses == {"0.0.0.0", "127.0.0.1"}

\* An Allocation as the server's JSON carries it; alias, notes and the two
\* dates are passed through unread.
Allocation(id, bindAddress, port, assigned) ==
    [id |-> id, bindAddress |-> bindAddress, port |-> port, assigned |-> assigned]

\* The i-th allocation of a pool made at installation: all on 0.0.0.0, on
\* consecutive ports.
Installed(i, assigned) == Allocation(i, "0.0.0.0", 25565 + i - 1, assigned)

NoNode ==
    [id |-> 0, isOnline |-> FALSE, allocations |-> <<>>,
     resources |-> Absent, systemState |-> "undefined"]

\* The JSON the server sends for node n: GET /api/nodes/:id and the elements
\* of GET /api/nodes.  Resources and system state are attached by the page.
NodeData(n) ==
    [id |-> n, isOnline |-> n \in OnlineNodes, allocations |-> srvPool[n],
     resources |-> Absent, systemState |-> "undefined"]

RECURSIVE SetToSeq(_)
SetToSeq(S) ==
    IF S = {} THEN <<>>
    ELSE LET m == CHOOSE x \in S : \A y \in S : x <= y
         IN  <<m>> \o SetToSeq(S \ {m})

NodesData == LET ids == SetToSeq(srvNodes) IN [i \in 1..Len(ids) |-> NodeData(ids[i])]

\* A response as a call keeps it; NoResp is also the failed fetch.
NoResp ==
    [ok |-> FALSE, nodes |-> <<>>, servers |-> <<>>, count |-> 0, error |-> "",
     probes |-> <<>>]

NoCall ==
    [kind |-> "none", pc |-> "", node |-> 0, arg |-> 0, rest |-> <<>>,
     sweep |-> 0, page |-> 0, limit |-> 0, tab |-> "", view |-> "",
     body |-> EmptyForm, resp |-> NoResp]

Slots == 1..MaxCalls

FreeSlots == {c \in Slots : calls[c].kind = "none"}

FreeSlot == CHOOSE c \in FreeSlots : \A d \in FreeSlots : c <= d

\* if (loading && nodes.length === 0) return <LoadingSpinner />
UIVisible == ~(loading /\ nodes = <<>>)

\* The React state a handler step reads and writes.
UI ==
    [nodes |-> nodes, loading |-> loading, view |-> view,
     selectedNode |-> selectedNode, activeTab |-> activeTab,
     selectedAllocations |-> selectedAllocations, alerts |-> alerts,
     allocationPagination |-> allocationPagination,
     allocationFormData |-> allocationFormData,
     allocationFormMode |-> allocationFormMode,
     allocationFormError |-> allocationFormError,
     isCreatingAllocation |-> isCreatingAllocation, sameTick |-> FALSE]

\* The same state in a step during which the clock may stand still
\* (sameTick): two Date.now() calls of the step then give the same value.
UIAt(sameTick) == [UI EXCEPT !.sameTick = sameTick]

\* Date.now().toString() when no notice raised at an earlier moment has
\* that value: ids are compared for equality only, so the lowest number no
\* notice of the list carries stands for it.
FreshId(list) ==
    CHOOSE k \in 1..(Len(list) + 1) :
        /\ \A i \in 1..Len(list) : list[i].id # k
        /\ \A j \in 1..(k - 1) : \E i \in 1..Len(list) : list[i].id = j

\* The id showAlert gives its notice: that of the notice raised before it
\* in the same step if the clock stood still, a new one otherwise.
AlertId(st) ==
    IF st.sameTick /\ Len(st.alerts) > Len(alerts)
    THEN st.alerts[Len(st.alerts)].id
    ELSE FreshId(st.alerts)

\* err.message in a catch block: the error the server's JSON names, or the
\* handler's own text.
ErrorMessage(resp, fallback) == IF resp.error # "" THEN resp.error ELSE fallback

showAlert(st, type, message, count) ==
    [st EXCEPT !.alerts =
        Append(@, [id |-> AlertId(st), type |-> type, message |-> message,
                   count |-> count])]

\* useEffect(..., [selectedNode, activeTab]): re-derive the total.
PaginationEffect(st) ==
    IF st.selectedNode # NoNode /\ st.activeTab = "allocations"
    THEN [st EXCEPT !.allocationPagination.total = Len(st.selectedNode.allocations)]
    ELSE st

\* A step's state updates are committed together; the effect runs when one
\* of its dependencies changed.
Commit(st) ==
    LET fin == IF st.selectedNode # selectedNode \/ st.activeTab # activeTab
               THEN PaginationEffect(st) ELSE st
    IN  /\ Len(fin.alerts) <= MaxAlerts
        /\ nodes' = fin.nodes
        /\ loading' = fin.loading
        /\ view' = fin.view
        /\ selectedNode' = fin.selectedNode
        /\ activeTab' = fin.activeTab
        /\ selectedAllocations' = fin.selectedAllocations
        /\ alerts' = fin.alerts
        /\ allocationPagination' = fin.allocationPagination
        /\ allocationFormData' = fin.allocationFormData
        /\ allocationFormMode' = fin.allocationFormMode
        /\ allocationFormError' = fin.allocationFormError
        /\ isCreatingAllocation' = fin.isCreatingAllocation

UNCHANGED_SERVER == UNCHANGED <<srvNodes, srvPool, srvServers>>

\* A step of the nodes page re-renders neither the search widget nor the
\* users page.
UNCHANGED_ELSEWHERE == UNCHANGED <<searchBar, formData>>

UNCHANGED_FORM ==
    UNCHANGED <<allocationFormData, allocationFormMode, allocationFormError,
                isCreatingAllocation>>

----------------------------------------------------------------------------
(* The server's data at start.                                             *)

\* Node 1 owns PageLimit + 1 allocations (two pages), the first one bound to
\* a workload; node 2 owns none.
InitPool ==
    [n \in NodeIds |->
        IF n = 1
        THEN [i \in 1..(PageLimit + 1) |-> Installed(i, i = 1)]
        ELSE <<>>]

AllocIds == 1..(PageLimit + 1)

Workload(n, cpu, mem, disk) ==
    [node |-> n, cpuPercent |-> cpu, memoryMiB |-> mem, diskMiB |-> disk]

\* Workload lists the server may hold: node 1 runs two servers, node 2 none.
ServerLists ==
    { <<Workload(1, 50, 2, <<3>>), Workload(1, 25, 1, Absent)>> }

ActiveServers(n) ==
    Cardinality({i \in 1..Len(srvServers) : srvServers[i].node = n})

----------------------------------------------------------------------------
(* Construction.                                                           *)

\* The call record of a handler started now: its closure holds the state of
\* the render it was created in.
NewCall(kind, pc, arg, rest, sweep) ==
    [kind |-> kind, pc |-> pc, node |-> selectedNode.id, arg |-> arg,
     rest |-> rest, sweep |-> sweep,
     page |-> allocationPagination.page, limit |-> allocationPagination.limit,
     tab |-> activeTab, view |-> view, body |-> allocationFormData,
     resp |-> NoResp]

\* The search widget reads a server's id, name and node.fqdn; a text is the
\* sequence of its characters.
SearchServer(id, name, fqdn) == [id |-> id, name |-> name, fqdn |-> fqdn]

\* The servers GET /api/servers may list for the widget.
SearchCatalog ==
    <<SearchServer(1, <<"A", "b">>, <<"a">>),
      SearchServer(2, <<"b">>, <<"b", "a">>),
      SearchServer(3, <<"a", "A">>, <<"a">>)>>

\* Longest query typed into the widget.
MaxQuery == 2

\* The characters a query is made of.
QueryChars == {"a", "A", "b", " "}

Queries == UNION {[1..n -> QueryChars] : n \in 0..MaxQuery}

\* String.prototype.toLowerCase.
toLowerCase(s) == [i \in 1..Len(s) |-> IF s[i] = "A" THEN "a" ELSE s[i]]

\* String.prototype.trim.
trim(s) ==
    LET inked == {i \in 1..Len(s) : s[i] # " "}
    IN  IF inked = {} THEN <<>>
        ELSE SubSeq(s, CHOOSE i \in inked : \A j \in inked : i <= j,
                       CHOOSE i \in inked : \A j \in inked : i >= j)

\* String.prototype.includes.
includes(s, q) ==
    \E i \in 0..(Len(s) - Len(q)) : SubSeq(s, i + 1, i + Len(q)) = q

\* The effect on [query, servers]: the list shown for the query.
filterEffect(sb) ==
    IF trim(sb.query) = <<>>
    THEN [sb EXCEPT !.filteredServers = sb.servers]
    ELSE LET lowerQuery == toLowerCase(sb.query)
             matches(server) ==
                 \/ includes(toLowerCase(server.name), lowerQuery)
                 \/ includes(toLowerCase(server.fqdn), lowerQuery)
         IN  [sb EXCEPT !.filteredServers = SelectSeq(sb.servers, matches),
                        !.selectedIndex = 0]

\* The search widget after its first render: useState's initial values, and
\* the mount effect has set loading and sent its request.  route is the
\* last thing navigate was asked for.
SearchBarInit ==
    [isOpen |-> FALSE, query |-> <<>>, servers |-> <<>>,
     filteredServers |-> <<>>, loading |-> TRUE, selectedIndex |-> 0,
     route |-> "none"]

\* The permissions the users page offers.
availablePermissions ==
    {"ADMIN", "SERVERS_VIEW", "SERVERS_MANAGE", "USERS_VIEW", "USERS_MANAGE",
     "NODES_VIEW", "NODES_MANAGE"}

\* useState's initial value of the users page's formData.
FormDataInit ==
    [username |-> "", password |-> "",
     permissions |-> <<"SERVERS_VIEW", "SERVERS_MANAGE">>]

\* The components next to the nodes page, after their first render.
ElsewhereInit ==
    /\ searchBar = SearchBarInit
    /\ formData = FormDataInit

\* useState's initial values of the allocation form.
FormInit ==
    /\ allocationFormData = EmptyForm
    /\ allocationFormMode = "single"
    /\ allocationFormError = ""
    /\ isCreatingAllocation = FALSE

\* The state after the first render: useState's initial values, and the
\* mount effect has called fetchData.
ClientInit ==
    /\ nodes = <<>>
    /\ loading = TRUE
    /\ view = "list"
    /\ selectedNode = NoNode
    /\ activeTab = "overview"
    /\ selectedAllocations = <<>>
    /\ alerts = <<>>
    /\ allocationPagination = [page |-> 1, limit |-> PageLimit, total |-> 0]
    /\ FormInit
    /\ ElsewhereInit

Init ==
    /\ srvNodes = NodeIds
    /\ srvPool = InitPool
    /\ srvServers \in ServerLists
    /\ ClientInit
    /\ calls = [c \in Slots |->
                  IF c = 1 THEN NewCall("fetchData", "LIST", 0, <<>>, 0) ELSE NoCall]

----------------------------------------------------------------------------
(* fetchData.                                                              *)

ResourcesOfAllServers(n, serversData) ==
    [memoryAllocated |-> SeqSum([i \in 1..Len(serversData) |->
                                    serversData[i].memoryMiB * 1024 * 1024]),
     diskAllocated |-> SeqSum([i \in 1..Len(serversData) |->
                                  (IF serversData[i].diskMiB = Absent THEN 0
                                   ELSE serversData[i].diskMiB[1]) * 1024 * 1024]),
     cpuAllocated |-> SeqSum([i \in 1..Len(serversData) |-> serversData[i].cpuPercent])]

\* nodesWithResources: the resource aggregate of one node.
Resources(n, serversData) ==
    LET nodeServers == SelectSeq(serversData, LAMBDA s : s.node = n)
        mem  == [i \in 1..Len(nodeServers) |-> nodeServers[i].memoryMiB * 1024 * 1024]
        disk == [i \in 1..Len(nodeServers) |->
                    (IF nodeServers[i].diskMiB = Absent THEN 0
                     ELSE nodeServers[i].diskMiB[1]) * 1024 * 1024]
        cpu  == [i \in 1..Len(nodeServers) |-> nodeServers[i].cpuPercent]
    IN  [memoryAllocated |-> SeqSum(mem), diskAllocated |-> SeqSum(disk),
         cpuAllocated |-> SeqSum(cpu)]

\* fetchNodeState: the daemon's state, or null when the probe failed or was
\* answered with an error.
fetchNodeState(outcome) == IF outcome = "failed" THEN "null" ELSE outcome

\* nodesWithState: resources for every node, a probe result for online ones.
nodesWithState(resp, probes) ==
    [i \in 1..Len(resp.nodes) |->
        LET node == [resp.nodes[i] EXCEPT
                        !.resources = <<Resources(resp.nodes[i].id, resp.servers)>>]
        IN  IF node.isOnline
            THEN [node EXCEPT !.systemState = fetchNodeState(probes[node.id])]
            ELSE node]

\* Array.prototype.find by id; NoNode when there is none.
FindNode(list, id) ==
    IF \E i \in 1..Len(list) : list[i].id = id
    THEN list[CHOOSE i \in 1..Len(list) :
                 list[i].id = id /\ \A j \in 1..(i - 1) : list[j].id # id]
    ELSE NoNode

FetchDataProbeFatal(st, call) ==
    IF call.resp.ok /\ \A n \in DOMAIN call.resp.probes : call.resp.probes[n] # "failed"
    THEN [st EXCEPT !.nodes = nodesWithState(call.resp, call.resp.probes),
                    !.loading = FALSE]
    ELSE [showAlert(st, "error", "Failed to fetch nodes", 0) EXCEPT !.loading = FALSE]

\* The part of fetchData that runs once the lists and the probes are in.
fetchData(st, call) ==
    IF call.resp.ok
    THEN LET nws     == nodesWithState(call.resp, call.resp.probes)
             updated == FindNode(nws, call.node)
             st1     == [st EXCEPT !.nodes = nws]
             st2     == IF call.node # 0 /\ call.view = "view" /\ updated # NoNode
                        THEN [st1 EXCEPT
                                !.selectedNode = updated,
                                !.allocationPagination.total =
                                    IF call.tab = "allocations"
                                    THEN Len(updated.allocations) ELSE @]
                        ELSE st1
         IN  [st2 EXCEPT !.loading = FALSE]
    ELSE [showAlert(st, "error", "Failed to fetch nodes", 0) EXCEPT !.loading = FALSE]

\* The Refresh button of the list view.
ClickRefresh ==
    /\ UIVisible /\ view = "list" /\ FreeSlots # {}
    /\ calls' = [calls EXCEPT ![FreeSlot] = NewCall("fetchData", "LIST", 0, <<>>, 0)]
    /\ loading' = TRUE
    /\ UNCHANGED_FORM
    /\ UNCHANGED <<nodes, view, selectedNode, activeTab, selectedAllocations,
                   alerts, allocationPagination>>
    /\ UNCHANGED_SERVER
    /\ UNCHANGED_ELSEWHERE

\* The server answers GET /api/nodes and GET /api/servers, or the fetch fails.
ServerList(c) ==
    /\ calls[c].pc = "LIST"
    /\ \E resp \in {[NoResp EXCEPT !.ok = TRUE, !.nodes = NodesData,
                                     !.servers = srvServers],
                    NoResp} :
          calls' = [calls EXCEPT ![c].pc = "LISTED", ![c].resp = resp]
    /\ UNCHANGED_FORM
    /\ UNCHANGED <<nodes, loading, view, selectedNode, activeTab,
                   selectedAllocations, alerts, allocationPagination>>
    /\ UNCHANGED_SERVER
    /\ UNCHANGED_ELSEWHERE

----------------------------------------------------------------------------
(* handleDelete (a node).                                                  *)

\* What handleDelete does after its await fetchData().
handleDeleteAfterFetch(st, call) ==
    LET st1 == IF call.node # 0 /\ call.node = call.arg
               THEN [st EXCEPT !.view = "list", !.selectedNode = NoNode]
               ELSE st
    IN  showAlert(st1, "success", "Node deleted successfully", 0)

\* The nodes a refresh probes: those its list reports online.
ProbedNodes(resp) == {resp.nodes[i].id : i \in {j \in 1..Len(resp.nodes) : resp.nodes[j].isOnline}}

\* The probes of the online nodes settle, each with the daemon's state or
\* with a failure; a failed list fetch has skipped them.
ProbesSettle(c) ==
    /\ calls[c].pc = "LISTED"
    /\ \E probes \in [ProbedNodes(calls[c].resp) -> {"failed", "state"}] :
          calls' = [calls EXCEPT ![c].pc = "PROBED", ![c].resp.probes = probes]
    /\ UNCHANGED_FORM
    /\ UNCHANGED <<nodes, loading, view, selectedNode, activeTab,
                   selectedAllocations, alerts, allocationPagination>>
    /\ UNCHANGED_SERVER
    /\ UNCHANGED_ELSEWHERE

\* The probes are in: fetchData ends, and handleDelete resumes if it was the
\* caller.
FetchDataDone(c) ==
    /\ calls[c].pc = "PROBED"
    /\ calls[c].kind \in {"fetchData", "handleDelete"}
    /\ \E tick \in BOOLEAN :
          LET st == fetchData(UIAt(tick), calls[c])
          IN  Commit(IF calls[c].kind = "handleDelete"
                     THEN handleDeleteAfterFetch(st, calls[c]) ELSE st)
    /\ calls' = [calls EXCEPT ![c] = NoCall]
    /\ UNCHANGED_SERVER
    /\ UNCHANGED_ELSEWHERE

\* The trash button of a node row, or Delete in the node view.
ClickDeleteNode(n) ==
    /\ UIVisible /\ FreeSlots # {}
    /\ \/ view = "list" /\ FindNode(nodes, n) # NoNode
       \/ view = "view" /\ selectedNode # NoNode /\ selectedNode.id = n
    /\ calls' = [calls EXCEPT ![FreeSlot] = NewCall("handleDelete", "DELETE", n, <<>>, 0)]
    /\ UNCHANGED_FORM
    /\ UNCHANGED <<nodes, loading, view, selectedNode, activeTab,
                   selectedAllocations, alerts, allocationPagination>>
    /\ UNCHANGED_SERVER
    /\ UNCHANGED_ELSEWHERE

\* The answers DELETE /api/nodes/:id can give for node n: success, a refusal
\* that counts the active servers, or an error (unknown node, failed fetch).
DeleteNodeResponses(n) ==
    {NoResp} \cup
    (IF n \notin srvNodes THEN {[NoResp EXCEPT !.error = "NotFound"]}
     ELSE IF ActiveServers(n) > 0
          THEN {[NoResp EXCEPT !.count = ActiveServers(n)]}
          ELSE {[NoResp EXCEPT !.ok = TRUE]})

ServerDeleteNode(c) ==
    /\ calls[c].kind = "handleDelete" /\ calls[c].pc = "DELETE"
    /\ \E response \in DeleteNodeResponses(calls[c].arg) :
          /\ srvNodes' = IF response.ok THEN srvNodes \ {calls[c].arg} ELSE srvNodes
          /\ calls' = [calls EXCEPT ![c].pc = "DELETED", ![c].resp = response]
    /\ UNCHANGED_FORM
    /\ UNCHANGED_ELSEWHERE
    /\ UNCHANGED <<srvPool, srvServers, nodes, loading, view, selectedNode, activeTab,
                   selectedAllocations, alerts, allocationPagination>>

BlockedAsError(st, call) ==
    IF call.resp.ok
    THEN [st EXCEPT !.loading = TRUE]
    ELSE showAlert(st, "error", ErrorMessage(call.resp, "Failed to delete node"), 0)

\* handleDelete once the DELETE response is in; on success it calls
\* fetchData, which starts with setLoading(true).
handleDelete(st, call) ==
    IF call.resp.ok
    THEN [st EXCEPT !.loading = TRUE]
    ELSE IF call.resp.count > 0
         THEN showAlert(st, "warning", "Cannot delete node with active servers",
                        call.resp.count)
         ELSE showAlert(st, "error", ErrorMessage(call.resp, "Failed to delete node"), 0)

DeleteNodeDone(c) ==
    /\ calls[c].kind = "handleDelete" /\ calls[c].pc = "DELETED"
    /\ Commit(handleDelete(UI, calls[c]))
    /\ calls' = [calls EXCEPT ![c] =
                    IF calls[c].resp.ok THEN [@ EXCEPT !.pc = "LIST", !.resp = NoResp]
                    ELSE NoCall]
    /\ UNCHANGED_SERVER
    /\ UNCHANGED_ELSEWHERE

----------------------------------------------------------------------------
(* Navigation.                                                             *)

\* A click on a node row.
SelectNode(i) ==
    /\ UIVisible /\ view = "list" /\ i \in 1..Len(nodes)
    /\ Commit([UI EXCEPT !.selectedNode = nodes[i], !.view = "view"])
    /\ UNCHANGED calls
    /\ UNCHANGED_SERVER
    /\ UNCHANGED_ELSEWHERE

\* The back arrow of the node view.
Back ==
    /\ UIVisible /\ view = "view" /\ selectedNode # NoNode
    /\ Commit([UI EXCEPT !.view = "list", !.selectedNode = NoNode])
    /\ UNCHANGED calls
    /\ UNCHANGED_SERVER
    /\ UNCHANGED_ELSEWHERE

setActiveTab(tab) ==
    /\ UIVisible /\ view = "view" /\ selectedNode # NoNode
    /\ tab # activeTab
    /\ Commit([UI EXCEPT !.activeTab = tab])
    /\ UNCHANGED calls
    /\ UNCHANGED_SERVER
    /\ UNCHANGED_ELSEWHERE

\* prev.filter(alert => alert.id !== id)
WithoutAlert(list, id) == SelectSeq(list, LAMBDA a : a.id # id)

TimerForSuccessOnly(alert) == alert.type = "success"

\* showAlert arms a 5 second timer for the notice it adds, of any type.
timerArmed(alert) == TRUE

\* The auto-dismiss timer of the oldest notice fires: all timers run 5
\* seconds, so they fire in the order the notices were raised.
AlertExpire ==
    /\ alerts # <<>>
    /\ timerArmed(Head(alerts))
    /\ alerts' = WithoutAlert(alerts, Head(alerts).id)
    /\ UNCHANGED_FORM
    /\ UNCHANGED <<nodes, loading, view, selectedNode, activeTab,
                   selectedAllocations, allocationPagination, calls>>
    /\ UNCHANGED_SERVER
    /\ UNCHANGED_ELSEWHERE

\* The x of a notice.
dismissAlert(i) ==
    /\ UIVisible /\ i \in 1..Len(alerts)
    /\ alerts' = WithoutAlert(alerts, alerts[i].id)
    /\ UNCHANGED_FORM
    /\ UNCHANGED <<nodes, loading, view, selectedNode, activeTab,
                   selectedAllocations, allocationPagination, calls>>
    /\ UNCHANGED_SERVER
    /\ UNCHANGED_ELSEWHERE

----------------------------------------------------------------------------
(* The allocations tab.                                                    *)

AllocationTabShown ==
    /\ UIVisible /\ view = "view" /\ selectedNode # NoNode
    /\ activeTab = "allocations"

\* The ids of the "Available" rows on screen: each has a checkbox and a
\* trash button.
AvailableRows == Range(Ids(DisplayedUnassigned(selectedNode.allocations,
                                               allocationPagination)))

handlePageChange(page) ==
    /\ AllocationTabShown
    /\ Len(selectedNode.allocations) > 0
    /\ page \in PageButtons(allocationPagination)
    /\ page # allocationPagination.page
    /\ Commit([UI EXCEPT !.allocationPagination.page = page])
    /\ UNCHANGED calls
    /\ UNCHANGED_SERVER
    /\ UNCHANGED_ELSEWHERE

toggleAllocation(id) ==
    /\ AllocationTabShown
    /\ id \in AvailableRows
    /\ Commit([UI EXCEPT !.selectedAllocations =
                  IF Includes(@, id)
                  THEN SelectSeq(@, LAMBDA allocId : allocId # id)
                  ELSE Append(@, id)])
    /\ UNCHANGED calls
    /\ UNCHANGED_SERVER
    /\ UNCHANGED_ELSEWHERE

\* The workload owner binds a free allocation; the page is not told.
EnvAssign(n, i) ==
    /\ n \in srvNodes /\ i \in 1..Len(srvPool[n])
    /\ srvPool[n][i].id \in Bindable
    /\ ~srvPool[n][i].assigned
    /\ srvPool' = [srvPool EXCEPT ![n][i].assigned = TRUE]
    /\ UNCHANGED_FORM
    /\ UNCHANGED_ELSEWHERE
    /\ UNCHANGED <<srvNodes, srvServers, nodes, loading, view, selectedNode,
                   activeTab, selectedAllocations, alerts, allocationPagination,
                   calls>>

----------------------------------------------------------------------------
(* fetchSingleNode and handleDeleteAllocation.                             *)

\* fetchSingleNode(nodeId) once the GET response is in.
fetchSingleNode(st, call, nodeId) ==
    IF call.resp.ok
    THEN LET nodeData == call.resp.nodes[1]
             st1 == [st EXCEPT !.nodes =
                        [i \in 1..Len(@) |-> IF @[i].id = nodeId THEN nodeData ELSE @[i]]]
             st2 == IF call.node # 0 /\ call.node = nodeId
                    THEN [st1 EXCEPT
                            !.selectedNode = nodeData,
                            !.allocationPagination.total =
                                IF call.tab = "allocations"
                                THEN Len(nodeData.allocations) ELSE @]
                    ELSE st1
         IN  [st2 EXCEPT !.loading = FALSE]
    ELSE [showAlert(st, "error", ErrorMessage(call.resp, "Failed to fetch node"), 0)
            EXCEPT !.loading = FALSE]

\* The answers DELETE /api/nodes/:n/allocations/:id can give.
DeleteAllocationResponses(n, id) ==
    {NoResp} \cup
    (IF n \in srvNodes /\ \E i \in 1..Len(srvPool[n]) : srvPool[n][i].id = id
     THEN IF \E i \in 1..Len(srvPool[n]) : srvPool[n][i].id = id /\ srvPool[n][i].assigned
          THEN {[NoResp EXCEPT !.error = "Conflict"]}
          ELSE {[NoResp EXCEPT !.ok = TRUE]}
     ELSE {[NoResp EXCEPT !.error = "NotFound"]})

HandleDeleteAllocationOptimistic(st, call) ==
    IF call.resp.ok
    THEN [st EXCEPT !.loading = TRUE]
    ELSE showAlert([st EXCEPT !.allocationPagination.total = Max(0, @ - 1)],
                   "error", ErrorMessage(call.resp, "Failed to delete allocation"), 0)

\* handleDeleteAllocation once the DELETE response is in: a rejection is
\* thrown to the catch block, a success goes on to fetchSingleNode, which
\* starts with setLoading(true).
handleDeleteAllocation(st, call) ==
    IF call.resp.ok
    THEN [st EXCEPT !.loading = TRUE]
    ELSE showAlert(st, "error", ErrorMessage(call.resp, "Failed to delete allocation"), 0)

\* const totalPages of handleDeleteAllocation: the pages of the re-fetched
\* pool at the page size of the call.
clampTotalPages(total, limit) == Ceil(total, limit)

\* handleDeleteAllocation after its await fetchSingleNode(selectedNode.id).
handleDeleteAllocationAfterFetch(st, call) ==
    LET st1 ==
          IF call.resp.ok
          THEN LET updatedNode == call.resp.nodes[1]
                   pages == clampTotalPages(Len(updatedNode.allocations), call.limit)
               IN  [st EXCEPT
                      !.selectedNode = updatedNode,
                      !.allocationPagination.page =
                          IF call.page > pages /\ pages > 0 THEN pages ELSE @,
                      !.allocationPagination.total = Len(updatedNode.allocations)]
          ELSE st
    IN  [showAlert(st1, "success", "Allocation deleted successfully", 0)
            EXCEPT !.selectedAllocations = <<>>]

SweepAbortOnFailure(call, ok) == IF ok THEN call.rest ELSE <<>>

\* The ids handleDeleteSelected still goes on to after one call has ended:
\* handleDeleteAllocation never throws, so the loop goes on either way.
sweepRest(call, ok) == call.rest

\* The end of one handleDeleteAllocation call: a bulk sweep issues the next
\* delete, or clears the selection after the last one.
EndOfCall(st, c, ok) ==
    LET call == calls[c]
        rest == sweepRest(call, ok)
    IN  IF call.sweep = 0
        THEN /\ Commit(st)
             /\ calls' = [calls EXCEPT ![c] = NoCall]
        ELSE IF rest # <<>>
        THEN /\ Commit(st)
             /\ calls' = [calls EXCEPT ![c] =
                            [call EXCEPT !.arg = Head(rest), !.rest = Tail(rest),
                                         !.pc = "DELETE", !.resp = NoResp]]
        ELSE /\ Commit([st EXCEPT !.selectedAllocations = <<>>])
             /\ calls' = [calls EXCEPT ![c] = NoCall]

RemoveAllocation(pool, id) == SelectSeq(pool, LAMBDA a : a.id # id)

\* The server answers the DELETE of one allocation.
ServerDeleteAllocation(c) ==
    /\ calls[c].kind = "handleDeleteAllocation" /\ calls[c].pc = "DELETE"
    /\ \E response \in DeleteAllocationResponses(calls[c].node, calls[c].arg) :
          /\ srvPool' = IF response.ok
                        THEN [srvPool EXCEPT ![calls[c].node] =
                                 RemoveAllocation(@, calls[c].arg)]
                        ELSE srvPool
          /\ calls' = [calls EXCEPT ![c].pc = "DELETED", ![c].resp = response]
    /\ UNCHANGED_FORM
    /\ UNCHANGED_ELSEWHERE
    /\ UNCHANGED <<srvNodes, srvServers, nodes, loading, view, selectedNode, activeTab,
                   selectedAllocations, alerts, allocationPagination>>

\* The DELETE response reaches the page.
DeleteAllocationDone(c) ==
    /\ calls[c].kind = "handleDeleteAllocation" /\ calls[c].pc = "DELETED"
    /\ IF calls[c].resp.ok
       THEN /\ Commit(handleDeleteAllocation(UI, calls[c]))
            /\ calls' = [calls EXCEPT ![c].pc = "GET", ![c].resp = NoResp]
       ELSE EndOfCall(handleDeleteAllocation(UI, calls[c]), c, FALSE)
    /\ UNCHANGED_SERVER
    /\ UNCHANGED_ELSEWHERE

\* The server answers GET /api/nodes/:id, or the fetch fails.
ServerGetNode(c) ==
    /\ calls[c].pc = "GET"
    /\ \E resp \in {NoResp} \cup
                   (IF calls[c].node \in srvNodes
                    THEN {[NoResp EXCEPT !.ok = TRUE,
                                         !.nodes = <<NodeData(calls[c].node)>>]}
                    ELSE {}) :
          calls' = [calls EXCEPT ![c].pc = "GOT", ![c].resp = resp]
    /\ UNCHANGED_FORM
    /\ UNCHANGED <<nodes, loading, view, selectedNode, activeTab,
                   selectedAllocations, alerts, allocationPagination>>
    /\ UNCHANGED_SERVER
    /\ UNCHANGED_ELSEWHERE

\* The GET response reaches the page: fetchSingleNode ends and
\* handleDeleteAllocation resumes.
GetNodeDone(c) ==
    /\ calls[c].kind = "handleDeleteAllocation" /\ calls[c].pc = "GOT"
    /\ \E tick \in BOOLEAN :
          EndOfCall(handleDeleteAllocationAfterFetch(
                       fetchSingleNode(UIAt(tick), calls[c], calls[c].node), calls[c]),
                    c, TRUE)
    /\ UNCHANGED_SERVER
    /\ UNCHANGED_ELSEWHERE

\* The trash button of an "Available" row.
ClickDeleteAllocation(id) ==
    /\ AllocationTabShown
    /\ id \in AvailableRows
    /\ FreeSlots # {}
    /\ calls' = [calls EXCEPT ![FreeSlot] =
                    NewCall("handleDeleteAllocation", "DELETE", id, <<>>, 0)]
    /\ UNCHANGED_FORM
    /\ UNCHANGED <<nodes, loading, view, selectedNode, activeTab,
                   selectedAllocations, alerts, allocationPagination>>
    /\ UNCHANGED_SERVER
    /\ UNCHANGED_ELSEWHERE

SweepAllAtOnce(ids) == Len(ids)

\* How many handleDeleteAllocation calls handleDeleteSelected has running
\* when it first yields: its loop awaits each call, so one.
sweepWidth(ids) == 1

FreshSweep ==
    CHOOSE s \in Slots : /\ \A c \in Slots : calls[c].sweep # s
                         /\ \A t \in 1..(s - 1) : \E c \in Slots : calls[c].sweep = t

RECURSIVE TakeFree(_, _)
\* The k lowest free slots, in order.
TakeFree(free, k) ==
    IF k = 0 THEN <<>>
    ELSE LET m == CHOOSE x \in free : \A y \in free : x <= y
         IN  <<m>> \o TakeFree(free \ {m}, k - 1)

\* The "Delete Selected" button.
handleDeleteSelected ==
    /\ AllocationTabShown
    /\ selectedAllocations # <<>>
    /\ LET ids   == selectedAllocations
           width == sweepWidth(ids)
       IN  /\ Cardinality(FreeSlots) >= width
           /\ LET slots == TakeFree(FreeSlots, width)
                  s     == FreshSweep
              IN  calls' = [c \in Slots |->
                     IF \E k \in 1..width : slots[k] = c
                     THEN LET k == CHOOSE k \in 1..width : slots[k] = c
                          IN  NewCall("handleDeleteAllocation", "DELETE", ids[k],
                                      IF k = width THEN SubSeq(ids, width + 1, Len(ids))
                                      ELSE <<>>,
                                      s)
                     ELSE calls[c]]
    /\ UNCHANGED_FORM
    /\ UNCHANGED <<nodes, loading, view, selectedNode, activeTab,
                   selectedAllocations, alerts, allocationPagination>>
    /\ UNCHANGED_SERVER
    /\ UNCHANGED_ELSEWHERE

----------------------------------------------------------------------------
(* The "Create Allocation" form and handleCreateAllocation.                *)

\* The "Single Port" and "Port Range" buttons.
setAllocationFormMode(mode) ==
    /\ AllocationTabShown
    /\ mode # allocationFormMode
    /\ allocationFormMode' = mode
    /\ UNCHANGED <<allocationFormData, allocationFormError, isCreatingAllocation>>
    /\ UNCHANGED <<nodes, loading, view, selectedNode, activeTab,
                   selectedAllocations, alerts, allocationPagination, calls>>
    /\ UNCHANGED_SERVER
    /\ UNCHANGED_ELSEWHERE

\* One edit of a form field sets the whole form data.
EditForm(data) ==
    /\ AllocationTabShown
    /\ data # allocationFormData
    /\ allocationFormData' = data
    /\ UNCHANGED <<allocationFormMode, allocationFormError, isCreatingAllocation>>
    /\ UNCHANGED <<nodes, loading, view, selectedNode, activeTab,
                   selectedAllocations, alerts, allocationPagination, calls>>
    /\ UNCHANGED_SERVER
    /\ UNCHANGED_ELSEWHERE

\* parseInt of an emptied number input.
NaN == -1

\* The "Bind Address" input.
EditBindAddress(address) ==
    EditForm([allocationFormData EXCEPT !.bindAddress = address])

\* The "Port" input of the single mode.
EditPort(port) ==
    /\ allocationFormMode = "single"
    /\ EditForm([allocationFormData EXCEPT !.port = <<port>>, !.portRange = Absent])

\* The "Start Port" input of the range mode: the end defaults to the start.
EditStartPort(port) ==
    /\ allocationFormMode = "range"
    /\ EditForm([allocationFormData EXCEPT
                    !.port = Absent,
                    !.portRange =
                        <<[start |-> port,
                           end   |-> IF @ # Absent /\ @[1].end # NaN
                                     THEN @[1].end ELSE port]>>])

\* The "End Port" input of the range mode: the start defaults to the end.
EditEndPort(port) ==
    /\ allocationFormMode = "range"
    /\ EditForm([allocationFormData EXCEPT
                    !.port = Absent,
                    !.portRange =
                        <<[start |-> IF @ # Absent /\ @[1].start # NaN
                                     THEN @[1].start ELSE port,
                           end   |-> port]>>])

\* The text a number input shows for a field: value={field || ''}.
Shown(field) == IF field = Absent \/ field = <<NaN>> THEN "" ELSE "number"

\* The form is submitted whatever its inputs hold.
FormAlwaysComplete == TRUE

\* The browser submits the form only when its required inputs are filled:
\* the inputs on screen are those of the current mode.
FormComplete ==
    /\ allocationFormData.bindAddress # ""
    /\ allocationFormMode = "single" => Shown(allocationFormData.port) # ""
    /\ allocationFormMode = "range" =>
          /\ allocationFormData.portRange # Absent
          /\ Shown(<<allocationFormData.portRange[1].start>>) # ""
          /\ Shown(<<allocationFormData.portRange[1].end>>) # ""

SubmitNeverDisabled == FALSE

\* disabled={isCreatingAllocation} of the submit button.
submitDisabled == isCreatingAllocation

\* The "Create Allocation" button: handleCreateAllocation up to its fetch.
SubmitCreateAllocation ==
    /\ AllocationTabShown
    /\ ~submitDisabled
    /\ FormComplete
    /\ FreeSlots # {}
    /\ isCreatingAllocation' = TRUE
    /\ allocationFormError' = ""
    /\ calls' = [calls EXCEPT ![FreeSlot] =
                    NewCall("handleCreateAllocation", "POST", 0, <<>>, 0)]
    /\ UNCHANGED <<allocationFormData, allocationFormMode>>
    /\ UNCHANGED <<nodes, loading, view, selectedNode, activeTab,
                   selectedAllocations, alerts, allocationPagination>>
    /\ UNCHANGED_SERVER
    /\ UNCHANGED_ELSEWHERE

\* The allocation ids some part of the system still holds.
UsedAllocationIds ==
    UNION ({Range(Ids(srvPool[n])) : n \in NodeIds}
           \cup {Range(Ids(nodes[i].allocations)) : i \in 1..Len(nodes)}
           \cup {Range(Ids(selectedNode.allocations)), Range(selectedAllocations)}
           \cup {{calls[c].arg} \cup Range(calls[c].rest) : c \in Slots}
           \cup {UNION {Range(Ids(calls[c].resp.nodes[i].allocations)) :
                            i \in 1..Len(calls[c].resp.nodes)} : c \in Slots})

RECURSIVE FreshAllocationIds(_, _)
\* k ids the server has not handed out: ids are compared for equality only,
\* so the lowest numbers nobody holds stand for them.
FreshAllocationIds(used, k) ==
    IF k = 0 THEN <<>>
    ELSE LET id == CHOOSE x \in 1..(Cardinality(used) + 1) :
                      /\ x \notin used
                      /\ \A y \in 1..(x - 1) : y \in used
         IN  <<id>> \o FreshAllocationIds(used \cup {id}, k - 1)

\* (bindAddress, port) already exists in the pool.
Present(pool, bindAddress, port) ==
    \E i \in 1..Len(pool) : pool[i].bindAddress = bindAddress /\ pool[i].port = port

RECURSIVE CreateRangeEveryPort(_, _, _, _, _)
CreateRangeEveryPort(pool, bindAddress, start, end, ids) ==
    IF start > end THEN <<>>
    ELSE <<Allocation(Head(ids), bindAddress, start, FALSE)>>
         \o CreateRangeEveryPort(pool, bindAddress, start + 1, end, Tail(ids))

RECURSIVE createRange(_, _, _, _, _)
\* createRange(bindAddress, start, end): one unassigned allocation for every
\* port of [start, end] not already present on bindAddress; the result is
\* the newly created ones.
createRange(pool, bindAddress, start, end, ids) ==
    IF start > end THEN <<>>
    ELSE IF Present(pool, bindAddress, start)
    THEN createRange(pool, bindAddress, start + 1, end, ids)
    ELSE <<Allocation(Head(ids), bindAddress, start, FALSE)>>
         \o createRange(pool, bindAddress, start + 1, end, Tail(ids))

\* What POST /api/nodes/:n/allocations does with a request body: the error
\* it answers ("" for none) and the allocations it adds to the pool.
CreateOutcome(n, body) ==
    LET ids == FreshAllocationIds(UsedAllocationIds, Cardinality(Ports))
    IN  IF n \notin srvNodes
        THEN [error |-> "NotFound", created |-> <<>>]
        ELSE IF body.portRange # Absent
        THEN LET r == body.portRange[1]
             IN  IF r.start > r.end
                 THEN [error |-> "InvalidArgument", created |-> <<>>]
                 ELSE [error |-> "",
                       created |-> createRange(srvPool[n], body.bindAddress,
                                               r.start, r.end, ids)]
        ELSE IF body.port # Absent
        THEN IF Present(srvPool[n], body.bindAddress, body.port[1])
             THEN [error |-> "Conflict", created |-> <<>>]
             ELSE [error |-> "",
                   created |-> <<Allocation(Head(ids), body.bindAddress,
                                            body.port[1], FALSE)>>]
        ELSE [error |-> "InvalidArgument", created |-> <<>>]

\* The server answers the POST, or the request never reaches it.
ServerCreateAllocation(c) ==
    /\ calls[c].kind = "handleCreateAllocation" /\ calls[c].pc = "POST"
    /\ \E reached \in BOOLEAN :
          LET out == CreateOutcome(calls[c].node, calls[c].body)
          IN  IF reached
              THEN /\ srvPool' = IF out.created # <<>>
                                 THEN [srvPool EXCEPT ![calls[c].node] = @ \o out.created]
                                 ELSE srvPool
                   /\ calls' = [calls EXCEPT
                                  ![c].pc = "POSTED",
                                  ![c].resp = [NoResp EXCEPT !.ok = (out.error = ""),
                                                             !.error = out.error]]
              ELSE /\ srvPool' = srvPool
                   /\ calls' = [calls EXCEPT ![c].pc = "POSTED", ![c].resp = NoResp]
    /\ UNCHANGED_FORM
    /\ UNCHANGED_ELSEWHERE
    /\ UNCHANGED <<srvNodes, srvServers, nodes, loading, view, selectedNode, activeTab,
                   selectedAllocations, alerts, allocationPagination>>

CreateNeverThrows(resp) == FALSE

\* handleCreateAllocation leaves its try block when the fetch rejects or
\* the response is not ok.
createThrows(resp) == ~resp.ok

HandleCreateAllocationClearsForm(st, call) ==
    IF ~call.resp.ok
    THEN LET errorMessage == ErrorMessage(call.resp, "Failed to create allocation")
         IN  [showAlert([st EXCEPT !.allocationFormData = EmptyForm,
                                   !.allocationFormMode = "single"],
                        "error", errorMessage, 0)
                EXCEPT !.isCreatingAllocation = FALSE]
    ELSE [st EXCEPT !.loading = TRUE]

\* handleCreateAllocation once the POST response is in: a rejection goes
\* through catch and finally, a success on to fetchSingleNode, which starts
\* with setLoading(true).
handleCreateAllocation(st, call) ==
    IF createThrows(call.resp)
    THEN LET errorMessage == ErrorMessage(call.resp, "Failed to create allocation")
         IN  [showAlert([st EXCEPT !.allocationFormError = errorMessage],
                        "error", errorMessage, 0)
                EXCEPT !.isCreatingAllocation = FALSE]
    ELSE [st EXCEPT !.loading = TRUE]

\* handleCreateAllocation after its await fetchSingleNode(selectedNode.id).
handleCreateAllocationAfterFetch(st, call) ==
    LET st1 ==
          IF call.resp.ok
          THEN LET updatedNode == call.resp.nodes[1]
               IN  [st EXCEPT
                      !.selectedNode = updatedNode,
                      !.allocationPagination.total = Len(updatedNode.allocations)]
          ELSE st
    IN  [showAlert([st1 EXCEPT !.allocationFormData = EmptyForm,
                               !.allocationFormMode = "single"],
                   "success", "Allocation created successfully", 0)
            EXCEPT !.isCreatingAllocation = FALSE]

\* The POST response reaches the page.
CreateAllocationDone(c) ==
    /\ calls[c].kind = "handleCreateAllocation" /\ calls[c].pc = "POSTED"
    /\ \E tick \in BOOLEAN :
          Commit(handleCreateAllocation(UIAt(tick), calls[c]))
    /\ calls' = IF createThrows(calls[c].resp)
                THEN [calls EXCEPT ![c] = NoCall]
                ELSE [calls EXCEPT ![c].pc = "GET", ![c].resp = NoResp]
    /\ UNCHANGED_SERVER
    /\ UNCHANGED_ELSEWHERE

\* The GET response reaches the page: fetchSingleNode ends and
\* handleCreateAllocation resumes.
CreateGetNodeDone(c) ==
    /\ calls[c].kind = "handleCreateAllocation" /\ calls[c].pc = "GOT"
    /\ \E tick \in BOOLEAN :
          Commit(handleCreateAllocationAfterFetch(
                    fetchSingleNode(UIAt(tick), calls[c], calls[c].node), calls[c]))
    /\ calls' = [calls EXCEPT ![c] = NoCall]
    /\ UNCHANGED_SERVER
    /\ UNCHANGED_ELSEWHERE

\* The x of the form's inline error.
dismissAllocationFormError ==
    /\ AllocationTabShown
    /\ allocationFormError # ""
    /\ allocationFormError' = ""
    /\ UNCHANGED <<allocationFormData, allocationFormMode, isCreatingAllocation>>
    /\ UNCHANGED <<nodes, loading, view, selectedNode, activeTab,
                   selectedAllocations, alerts, allocationPagination, calls>>
    /\ UNCHANGED_SERVER
    /\ UNCHANGED_ELSEWHERE

----------------------------------------------------------------------------
(* Editing a node: renderForm('edit') and handleEdit.                      *)

\* The node form's fields (name, fqdn, port) and its formError are not part
\* of the model: no node record of the model carries them, and nothing the
\* page does with nodes, views or allocations reads them.

\* The Edit button of the node view.
EditFromView ==
    /\ UIVisible /\ view = "view" /\ selectedNode # NoNode
    /\ Commit([UI EXCEPT !.view = "edit"])
    /\ UNCHANGED calls
    /\ UNCHANGED_SERVER
    /\ UNCHANGED_ELSEWHERE

\* The pencil of a node row.
EditFromRow(i) ==
    /\ UIVisible /\ view = "list" /\ i \in 1..Len(nodes)
    /\ Commit([UI EXCEPT !.selectedNode = nodes[i], !.view = "edit"])
    /\ UNCHANGED calls
    /\ UNCHANGED_SERVER
    /\ UNCHANGED_ELSEWHERE

\* The Cancel button of renderForm('edit').
CancelEdit ==
    /\ UIVisible /\ view = "edit"
    /\ Commit([UI EXCEPT !.view = "view"])
    /\ UNCHANGED calls
    /\ UNCHANGED_SERVER
    /\ UNCHANGED_ELSEWHERE

\* The "Update Node" button: handleEdit up to its fetch.
SubmitEdit ==
    /\ UIVisible /\ view = "edit"
    /\ selectedNode # NoNode
    /\ FreeSlots # {}
    /\ calls' = [calls EXCEPT ![FreeSlot] =
                    NewCall("handleEdit", "PATCH", selectedNode.id, <<>>, 0)]
    /\ UNCHANGED_FORM
    /\ UNCHANGED <<nodes, loading, view, selectedNode, activeTab,
                   selectedAllocations, alerts, allocationPagination>>
    /\ UNCHANGED_SERVER
    /\ UNCHANGED_ELSEWHERE

\* The server answers PATCH /api/nodes/:id: it accepts the new fields,
\* rejects them, or the fetch fails.
ServerPatchNode(c) ==
    /\ calls[c].kind = "handleEdit" /\ calls[c].pc = "PATCH"
    /\ \E response \in {NoResp, [NoResp EXCEPT !.error = "InvalidArgument"]}
                       \cup (IF calls[c].arg \in srvNodes
                             THEN {[NoResp EXCEPT !.ok = TRUE]}
                             ELSE {[NoResp EXCEPT !.error = "NotFound"]}) :
          calls' = [calls EXCEPT ![c].pc = "PATCHED", ![c].resp = response]
    /\ UNCHANGED_FORM
    /\ UNCHANGED <<nodes, loading, view, selectedNode, activeTab,
                   selectedAllocations, alerts, allocationPagination>>
    /\ UNCHANGED_SERVER
    /\ UNCHANGED_ELSEWHERE

\* handleEdit once the PATCH response is in: a rejection goes to the catch
\* block, a success on to fetchData, which starts with setLoading(true).
handleEdit(st, call) ==
    IF call.resp.ok
    THEN [st EXCEPT !.loading = TRUE]
    ELSE showAlert(st, "error", ErrorMessage(call.resp, "Failed to update node"), 0)

\* handleEdit after its await fetchData(): the success notice, then
\* fetchSingleNode, which starts with setLoading(true).
handleEditAfterFetchData(st, call) ==
    [showAlert(st, "success", "Node updated successfully", 0) EXCEPT !.loading = TRUE]

\* handleEdit after its await fetchSingleNode(selectedNode.id).
handleEditAfterFetch(st, call) ==
    LET st1 == IF call.resp.ok
               THEN [st EXCEPT !.selectedNode = call.resp.nodes[1]]
               ELSE st
    IN  [st1 EXCEPT !.view = "view"]

\* The PATCH response reaches the page.
PatchNodeDone(c) ==
    /\ calls[c].kind = "handleEdit" /\ calls[c].pc = "PATCHED"
    /\ Commit(handleEdit(UI, calls[c]))
    /\ calls' = [calls EXCEPT ![c] =
                    IF calls[c].resp.ok THEN [@ EXCEPT !.pc = "LIST", !.resp = NoResp]
                    ELSE NoCall]
    /\ UNCHANGED_SERVER
    /\ UNCHANGED_ELSEWHERE

\* The refresh of handleEdit has settled: fetchData ends and handleEdit
\* goes on to fetchSingleNode.
EditFetchDataDone(c) ==
    /\ calls[c].kind = "handleEdit" /\ calls[c].pc = "PROBED"
    /\ \E tick \in BOOLEAN :
          Commit(handleEditAfterFetchData(fetchData(UIAt(tick), calls[c]), calls[c]))
    /\ calls' = [calls EXCEPT ![c].pc = "GET", ![c].resp = NoResp]
    /\ UNCHANGED_SERVER
    /\ UNCHANGED_ELSEWHERE

\* The GET response reaches the page: fetchSingleNode ends and handleEdit
\* resumes.
EditGetNodeDone(c) ==
    /\ calls[c].kind = "handleEdit" /\ calls[c].pc = "GOT"
    /\ \E tick \in BOOLEAN :
          Commit(handleEditAfterFetch(
                    fetchSingleNode(UIAt(tick), calls[c], calls[c].node), calls[c]))
    /\ calls' = [calls EXCEPT ![c] = NoCall]
    /\ UNCHANGED_SERVER
    /\ UNCHANGED_ELSEWHERE

----------------------------------------------------------------------------
(* The page and its server.                                                *)

Next ==
    \/ ClickRefresh
    \/ \E c \in Slots : ServerList(c)
    \/ \E c \in Slots : ProbesSettle(c)
    \/ \E c \in Slots : FetchDataDone(c)
    \/ \E n \in NodeIds : ClickDeleteNode(n)
    \/ \E c \in Slots : ServerDeleteNode(c)
    \/ \E c \in Slots : DeleteNodeDone(c)
    \/ \E i \in 1..Cardinality(NodeIds) : SelectNode(i)
    \/ Back
    \/ \E tab \in Tabs : setActiveTab(tab)
    \/ AlertExpire
    \/ \E i \in 1..MaxAlerts : dismissAlert(i)
    \/ \E page \in 1..Cardinality(AllocIds) : handlePageChange(page)
    \/ \E id \in AllocIds : toggleAllocation(id)
    \/ \E n \in NodeIds : \E i \in 1..Cardinality(AllocIds) : EnvAssign(n, i)
    \/ \E id \in AllocIds : ClickDeleteAllocation(id)
    \/ handleDeleteSelected
    \/ \E c \in Slots : ServerDeleteAllocation(c)
    \/ \E c \in Slots : DeleteAllocationDone(c)
    \/ \E c \in Slots : ServerGetNode(c)
    \/ \E c \in Slots : GetNodeDone(c)
    \/ \E mode \in {"single", "range"} : setAllocationFormMode(mode)
    \/ \E address \in BindAddresses : EditBindAddress(address)
    \/ \E port \in Ports : EditPort(port)
    \/ \E port \in Ports : EditStartPort(port)
    \/ \E port \in Ports : EditEndPort(port)
    \/ dismissAllocationFormError
    \/ SubmitCreateAllocation
    \/ \E c \in Slots : ServerCreateAllocation(c)
    \/ \E c \in Slots : CreateAllocationDone(c)
    \/ \E c \in Slots : CreateGetNodeDone(c)
    \/ EditFromView
    \/ \E i \in 1..Cardinality(NodeIds) : EditFromRow(i)
    \/ CancelEdit
    \/ SubmitEdit
    \/ \E c \in Slots : ServerPatchNode(c)
    \/ \E c \in Slots : PatchNodeDone(c)
    \/ \E c \in Slots : EditFetchDataDone(c)
    \/ \E c \in Slots : EditGetNodeDone(c)

Spec == Init /\ [][Next]_vars

----------------------------------------------------------------------------
(* The allocation pool of an opened node.                                  *)

\* The page after its first load has succeeded: what Init reaches through
\* ServerList and FetchDataDone when every request and probe is answered.
Loaded ==
    /\ srvNodes = NodeIds
    /\ srvPool = InitPool
    /\ srvServers \in ServerLists
    /\ nodes = nodesWithState([NoResp EXCEPT !.nodes = NodesData, !.servers = srvServers],
                              [n \in OnlineNodes |-> "state"])
    /\ loading = FALSE
    /\ view = "list"
    /\ selectedNode = NoNode
    /\ activeTab = "overview"
    /\ selectedAllocations = <<>>
    /\ alerts = <<>>
    /\ allocationPagination = [page |-> 1, limit |-> PageLimit, total |-> 0]
    /\ FormInit
    /\ ElsewhereInit
    /\ calls = [c \in Slots |-> NoCall]

\* No handler is in progress: the operator starts an operation only when the
\* one before has ended.  Navigation, paging and selecting stay free.
Idle == \A c \in Slots : calls[c] = NoCall

\* The notices of earlier operations are gone: they expire after 5 seconds,
\* and a response is taken to arrive later than that after the one before.
Quiet == alerts = <<>>

AllocNext ==
    \/ \E i \in 1..Cardinality(NodeIds) : SelectNode(i)
    \/ Back
    \/ \E tab \in Tabs : setActiveTab(tab)
    \/ AlertExpire
    \/ \E i \in 1..MaxAlerts : dismissAlert(i)
    \/ \E page \in 1..Cardinality(AllocIds) : handlePageChange(page)
    \/ \E id \in AllocIds : toggleAllocation(id)
    \/ \E n \in NodeIds : \E i \in 1..Cardinality(AllocIds) : EnvAssign(n, i)
    \/ \E id \in AllocIds : Idle /\ ClickDeleteAllocation(id)
    \/ Idle /\ handleDeleteSelected
    \/ \E c \in Slots : ServerDeleteAllocation(c)
    \/ \E c \in Slots : Quiet /\ DeleteAllocationDone(c)
    \/ \E c \in Slots : ServerGetNode(c)
    \/ \E c \in Slots : Quiet /\ GetNodeDone(c)

AllocSpec == Loaded /\ [][AllocNext]_vars

\* Every fetch settles and every alert's timer fires.
FairAllocSpec ==
    /\ AllocSpec
    /\ WF_vars(AlertExpire)
    /\ \A c \in Slots : /\ WF_vars(ServerDeleteAllocation(c))
                        /\ WF_vars(Quiet /\ DeleteAllocationDone(c))
                        /\ WF_vars(ServerGetNode(c))
                        /\ WF_vars(Quiet /\ GetNodeDone(c))

----------------------------------------------------------------------------
(* The bulk delete of an opened allocations tab.                           *)

\* The allocations tab of node 1 right after it was opened.
SweepInit ==
    /\ srvNodes = NodeIds
    /\ srvPool = InitPool
    /\ srvServers \in ServerLists
    /\ nodes = nodesWithState([NoResp EXCEPT !.nodes = NodesData, !.servers = srvServers],
                              [n \in OnlineNodes |-> "state"])
    /\ loading = FALSE
    /\ view = "view"
    /\ selectedNode = nodes[1]
    /\ activeTab = "allocations"
    /\ selectedAllocations = <<>>
    /\ alerts = <<>>
    /\ allocationPagination =
          [page |-> 1, limit |-> PageLimit, total |-> Len(nodes[1].allocations)]
    /\ FormInit
    /\ ElsewhereInit
    /\ calls = [c \in Slots |-> NoCall]

SweepNext ==
    \/ \E page \in 1..Cardinality(AllocIds) : handlePageChange(page)
    \/ \E id \in AllocIds : toggleAllocation(id)
    \/ \E n \in NodeIds : \E i \in 1..Cardinality(AllocIds) : EnvAssign(n, i)
    \/ Idle /\ handleDeleteSelected
    \/ \E c \in Slots : ServerDeleteAllocation(c)
    \/ \E c \in Slots : Quiet /\ DeleteAllocationDone(c)
    \/ \E c \in Slots : ServerGetNode(c)
    \/ \E c \in Slots : Quiet /\ GetNodeDone(c)
    \/ AlertExpire

\* Every fetch of a sweep settles and every alert's timer fires.
FairSweepSpec ==
    /\ SweepInit /\ [][SweepNext]_vars
    /\ WF_vars(AlertExpire)
    /\ \A c \in Slots : /\ WF_vars(ServerDeleteAllocation(c))
                        /\ WF_vars(Quiet /\ DeleteAllocationDone(c))
                        /\ WF_vars(ServerGetNode(c))
                        /\ WF_vars(Quiet /\ GetNodeDone(c))

----------------------------------------------------------------------------
(* The node list: loading, refreshing and deleting nodes.                  *)

NodeNext ==
    \/ Idle /\ ClickRefresh
    \/ \E c \in Slots : ServerList(c)
    \/ \E c \in Slots : ProbesSettle(c)
    \/ \E c \in Slots : Quiet /\ FetchDataDone(c)
    \/ \E n \in NodeIds : Idle /\ ClickDeleteNode(n)
    \/ \E c \in Slots : ServerDeleteNode(c)
    \/ \E c \in Slots : Quiet /\ DeleteNodeDone(c)
    \/ \E i \in 1..Cardinality(NodeIds) : SelectNode(i)
    \/ Back
    \/ \E tab \in Tabs : setActiveTab(tab)
    \/ AlertExpire
    \/ \E i \in 1..MaxAlerts : dismissAlert(i)
    \/ \E n \in NodeIds : \E i \in 1..Cardinality(AllocIds) : EnvAssign(n, i)

NodeSpec == Init /\ [][NodeNext]_vars

----------------------------------------------------------------------------
(* The pager on its own: an opened allocations tab over any pool.          *)

\* Every allocation list of at most MaxLen entries, in creation order.
AllocationLists ==
    UNION {{[i \in 1..n |-> Installed(i, f[i])] : f \in [1..n -> BOOLEAN]}
           : n \in 0..MaxLen}

\* The pool of the scenario: 3 allocations in use among 12 free ones.
ScenarioPool == [i \in 1..15 |-> Installed(i, i \in {2, 7, 11})]

ScenarioLimit == 10

PagerInputs ==
    {[allocations |-> l, limit |-> k, page |-> p] :
        l \in AllocationLists, k \in 1..MaxLimit, p \in 1..MaxPage}
    \cup {[allocations |-> ScenarioPool, limit |-> ScenarioLimit, page |-> 1]}

\* The allocations tab of node 1 is open on some pool.  The window's page may
\* lie past the pool: it is kept when another node is opened.
PagerInit ==
    \E in \in PagerInputs :
        /\ srvNodes = {1}
        /\ srvPool = [n \in NodeIds |-> IF n = 1 THEN in.allocations ELSE <<>>]
        /\ srvServers = <<>>
        /\ selectedNode = [NodeData(1) EXCEPT !.resources = <<Resources(1, <<>>)>>,
                                              !.systemState = "state"]
        /\ nodes = <<selectedNode>>
        /\ loading = FALSE
        /\ view = "view"
        /\ activeTab = "allocations"
        /\ selectedAllocations = <<>>
        /\ alerts = <<>>
        /\ allocationPagination =
              [page |-> in.page, limit |-> in.limit, total |-> Len(in.allocations)]
        /\ FormInit
        /\ ElsewhereInit
        /\ calls = [c \in Slots |-> NoCall]

PagerNext == \E page \in 1..Len(ScenarioPool) : handlePageChange(page)

PagerSpec == PagerInit /\ [][PagerNext]_vars

RECURSIVE PagesConcat(_, _, _, _)
\* What pages from..to display, page after page.
PagesConcat(allocations, pag, from, to) ==
    IF from > to THEN <<>>
    ELSE Displayed(allocations, [pag EXCEPT !.page = from])
         \o PagesConcat(allocations, pag, from + 1, to)

\* C1: the pages 1..ceil(total/limit) of the allocations tab, each shown as
\* its assigned rows followed by its unassigned rows, together show every
\* allocation of the node exactly once, all assigned ones before all
\* unassigned ones.
C1_PagesCoverPool ==
    selectedNode # NoNode =>
        LET allocations == selectedNode.allocations
            pag == allocationPagination
            all == PagesConcat(allocations, pag, 1, Ceil(pag.total, pag.limit))
        IN  /\ all = assignedAllocations(allocations) \o unassignedAllocations(allocations)
            /\ \A a \in Range(allocations) :
                  Cardinality({i \in 1..Len(all) : all[i] = a}) = 1
            /\ \A i, j \in 1..Len(all) :
                  (all[i].assigned /\ ~all[j].assigned) => i < j

\* A pool of several pages whose current page shows both groups.
C1_Witness ==
    /\ selectedNode # NoNode
    /\ allocationPagination.total > allocationPagination.limit
    /\ DisplayedAssigned(selectedNode.allocations, allocationPagination) # <<>>
    /\ DisplayedUnassigned(selectedNode.allocations, allocationPagination) # <<>>

\* C2: the rows on screen are the elements [(page-1)*limit, page*limit) of
\* assigned ++ unassigned, cut at its end (none when the page lies past it);
\* with 3 assigned, 12 unassigned and limit 10, page 1 shows 3 assigned and 7
\* unassigned rows and page 2 the other 5 unassigned ones.
C2_PageIsWindow ==
    selectedNode # NoNode =>
        LET allocations == selectedNode.allocations
            pag == allocationPagination
            whole == assignedAllocations(allocations) \o unassignedAllocations(allocations)
            from == (pag.page - 1) * pag.limit
        IN  /\ Displayed(allocations, pag)
                 = [i \in 1..(Min(pag.page * pag.limit, Len(whole)) - Min(from, Len(whole)))
                       |-> whole[from + i]]
            /\ (allocations = ScenarioPool /\ pag.limit = ScenarioLimit /\ pag.page = 1)
                  => /\ Len(DisplayedAssigned(allocations, pag)) = 3
                     /\ Len(DisplayedUnassigned(allocations, pag)) = 7
            /\ (allocations = ScenarioPool /\ pag.limit = ScenarioLimit /\ pag.page = 2)
                  => /\ DisplayedAssigned(allocations, pag) = <<>>
                     /\ Ids(DisplayedUnassigned(allocations, pag)) = <<10, 12, 13, 14, 15>>

\* Page 2 of the scenario is on screen.
C2_Witness ==
    /\ selectedNode.allocations = ScenarioPool
    /\ allocationPagination = [page |-> 2, limit |-> ScenarioLimit, total |-> 15]

----------------------------------------------------------------------------
(* Deleting allocations.                                                   *)

\* The step in which call c learns that its re-fetch has settled and
\* handleDeleteAllocation runs to its end.
DeleteCompleted(c) ==
    /\ calls[c].kind = "handleDeleteAllocation" /\ calls[c].pc = "GOT"
    /\ calls'[c] # calls[c]

\* The step in which call c learns that the server refused its DELETE.
DeleteRejected(c) ==
    /\ calls[c].kind = "handleDeleteAllocation" /\ calls[c].pc = "DELETED"
    /\ ~calls[c].resp.ok /\ calls[c].resp.error \in {"Conflict", "NotFound"}
    /\ calls'[c] # calls[c]

\* The step in which a DELETE for one allocation is issued by call c.
DeleteIssued(c) ==
    /\ calls'[c].kind = "handleDeleteAllocation" /\ calls'[c].pc = "DELETE"
    /\ calls'[c] # calls[c]

\* id is an unassigned allocation of the node snapshot.
Deletable(node, id) ==
    /\ node # NoNode
    /\ \E i \in 1..Len(node.allocations) :
          node.allocations[i].id = id /\ ~node.allocations[i].assigned

\* C3: when a deletion (DELETE and re-fetch both successful) completes on
\* the allocations tab of the node it was made on, the page is at most
\* ceil(newTotal / limit) if the pool is non-empty, and is 1 with total 0 if
\* the pool is empty.
C3_PageClampedAfterDelete ==
    [][\A c \in Slots :
          (/\ DeleteCompleted(c) /\ calls[c].resp.ok
           /\ AllocationTabShown /\ selectedNode.id = calls[c].node)
          => LET newTotal == Len(calls[c].resp.nodes[1].allocations)
                 pag == allocationPagination'
             IN  IF newTotal > 0
                 THEN pag.page <= Ceil(newTotal, pag.limit)
                 ELSE pag.page = 1 /\ pag.total = 0]_vars

\* C4: when an accepted deletion completes, whether or not its re-fetch
\* succeeded, allocationPagination.total is the size of the node's pool on
\* the server.
C4_TotalIsLivePool ==
    [][\A c \in Slots :
          DeleteCompleted(c)
          => allocationPagination'.total = Len(srvPool'[calls[c].node])]_vars

\* C5 as stated: a DELETE the server rejects with Conflict or NotFound
\* leaves the node list, the selected node, the pagination and the
\* selection as they were and adds one error notice.
C5_RejectedDeleteChangesNothing ==
    [][\A c \in Slots :
          DeleteRejected(c)
          => /\ nodes' = nodes /\ selectedNode' = selectedNode
             /\ allocationPagination' = allocationPagination
             /\ selectedAllocations' = selectedAllocations
             /\ alerts' = Append(alerts, [id |-> FreshId(alerts), type |-> "error",
                                          count |-> 0,
                                          message |-> calls[c].resp.error])]_vars

\* C5 amended: as above, except that the rejection of the last request of
\* a "Delete Selected" sweep ends the sweep, which clears the selection.
C5_RejectedDeleteKeepsData ==
    [][\A c \in Slots :
          DeleteRejected(c)
          => /\ nodes' = nodes /\ selectedNode' = selectedNode
             /\ allocationPagination' = allocationPagination
             /\ selectedAllocations' =
                   IF calls[c].sweep # 0 /\ calls[c].rest = <<>>
                   THEN <<>> ELSE selectedAllocations
             /\ loading' = loading /\ view' = view /\ activeTab' = activeTab
             /\ alerts' = Append(alerts, [id |-> FreshId(alerts), type |-> "error",
                                          count |-> 0,
                                          message |-> calls[c].resp.error])]_vars

\* A single delete of an allocation that was bound meanwhile has been
\* refused: the notice is up and the snapshot still lists the allocation
\* as available.
C5_Witness ==
    /\ Idle
    /\ alerts = <<[id |-> 1, type |-> "error", message |-> "Conflict", count |-> 0]>>
    /\ \E id \in Bindable : Deletable(selectedNode, id)
    /\ allocationPagination.total = Len(InitPool[1])

\* C6: every selected id, and every id a DELETE is issued for, is an
\* unassigned allocation of the node that is selected then.
C6_SelectionInCurrentPool ==
    [][/\ selectedNode' # NoNode
          => \A i \in 1..Len(selectedAllocations') :
                Deletable(selectedNode', selectedAllocations'[i])
       /\ \A c \in Slots :
             DeleteIssued(c) => Deletable(selectedNode', calls'[c].arg)]_vars

\* C7: of one "Delete Selected" sweep at most one request is in flight.
C7_SweepSequential ==
    \A s \in Slots : Cardinality({c \in Slots : calls[c].sweep = s}) <= 1

\* A sweep waits for the re-fetch of its first deletion while more ids are
\* still to come.
C7_Witness ==
    \E c \in Slots : /\ calls[c].sweep # 0 /\ calls[c].pc = "GET"
                     /\ calls[c].rest # <<>>

\* C8: every id a sweep still has to go on to gets its DELETE issued,
\* whatever the earlier requests of the sweep came to.
C8_SweepReachesEveryId ==
    \A s \in Slots : \A id \in AllocIds :
        (\E c \in Slots : calls[c].sweep = s /\ Includes(calls[c].rest, id))
        ~> (\E c \in Slots : /\ calls[c].sweep = s /\ calls[c].arg = id
                             /\ calls[c].pc = "DELETE")

\* A sweep has gone on to its last id right after the server refused the
\* id before it.
C8_Witness ==
    /\ \E c \in Slots : /\ calls[c].sweep # 0 /\ calls[c].pc = "DELETE"
                        /\ calls[c].rest = <<>>
    /\ alerts = <<[id |-> 1, type |-> "error", message |-> "Conflict", count |-> 0]>>

----------------------------------------------------------------------------
(* Deleting nodes and refreshing them.                                     *)

\* The step in which call c learns that the server refused to delete a
\* node that has active servers.
DeleteBlocked(c) ==
    /\ calls[c].kind = "handleDelete" /\ calls[c].pc = "DELETED"
    /\ ~calls[c].resp.ok /\ calls[c].resp.count > 0
    /\ calls'[c] # calls[c]

\* C9: a node deletion refused with a positive count adds exactly one
\* warning notice carrying that count and leaves the node list, the
\* selected node and the view as they were.
C9_BlockedDeleteWarns ==
    [][\A c \in Slots :
          DeleteBlocked(c)
          => /\ alerts' = Append(alerts,
                   [id |-> FreshId(alerts), type |-> "warning",
                    count |-> calls[c].resp.count,
                    message |-> "Cannot delete node with active servers"])
             /\ nodes' = nodes /\ selectedNode' = selectedNode /\ view' = view
             /\ calls'[c] = NoCall]_vars

\* The warning for node 1, which runs two servers, is up.
C9_Witness ==
    /\ 1 \in srvNodes /\ ActiveServers(1) > 1
    /\ \E i \in 1..Len(alerts) :
          alerts[i].type = "warning" /\ alerts[i].count = ActiveServers(1)
    /\ \E i \in 1..Len(nodes) : nodes[i].id = 1

\* A node as the page holds it carries its resource aggregation and, when
\* it is online, a system-state entry.
HasAttachments(node) ==
    /\ node.resources # Absent
    /\ node.isOnline => node.systemState # "undefined"

\* C10: every node of the list, and the selected node, carries its
\* allocations, its resources and its system state.
C10_NodesCarryAttachments ==
    /\ \A i \in 1..Len(nodes) : HasAttachments(nodes[i])
    /\ selectedNode # NoNode => HasAttachments(selectedNode)

----------------------------------------------------------------------------
(* Refreshing the selected node.                                           *)

\* The step in which call c learns that its refresh has succeeded: fetchData
\* with its lists and probes in, or fetchSingleNode with its node in.
RefreshCompleted(c) ==
    /\ calls[c].pc \in {"PROBED", "GOT"} /\ calls[c].resp.ok
    /\ calls'[c] # calls[c]

\* C11: when a refresh completes and the node list then holds the selected
\* node, the selected node is that entry of the list, and on the allocations
\* tab the total is the length of its allocation list.
C11_SelectedNodeFollowsRefresh ==
    [][\A c \in Slots :
          (/\ RefreshCompleted(c)
           /\ selectedNode' # NoNode
           /\ FindNode(nodes', selectedNode'.id) # NoNode)
          => /\ selectedNode' = FindNode(nodes', selectedNode'.id)
             /\ activeTab' = "allocations"
                => allocationPagination'.total = Len(selectedNode'.allocations)]_vars

----------------------------------------------------------------------------
(* One refresh, for every answer of the server.                            *)

\* The servers the list of a refresh may hold.
Workloads ==
    {Workload(n, cpu, mem, disk) :
        n \in NodeIds, cpu \in {25, 50}, mem \in {1, 2}, disk \in {Absent, <<3>>}}

WorkloadLists == UNION {[1..k -> Workloads] : k \in 0..MaxServers}

\* The first load has received its lists: any server list, and any of the
\* nodes reported online.
RefreshInit ==
    /\ srvNodes = NodeIds
    /\ srvPool = InitPool
    /\ srvServers \in WorkloadLists
    /\ ClientInit
    /\ \E online \in SUBSET NodeIds :
          calls = [c \in Slots |->
                     IF c = 1
                     THEN [NewCall("fetchData", "LISTED", 0, <<>>, 0) EXCEPT
                              !.resp = [NoResp EXCEPT
                                  !.ok = TRUE,
                                  !.nodes = [i \in 1..Len(NodesData) |->
                                      [NodesData[i] EXCEPT
                                          !.isOnline = NodesData[i].id \in online]],
                                  !.servers = srvServers]]
                     ELSE NoCall]

RefreshNext ==
    \/ \E c \in Slots : ProbesSettle(c)
    \/ \E c \in Slots : FetchDataDone(c)
    \/ \E i \in 1..Cardinality(NodeIds) : SelectNode(i)
    \/ Back

RefreshSpec == RefreshInit /\ [][RefreshNext]_vars

\* The step in which fetchData ends with its lists in and at least one
\* probe failed.
ProbeFailed(c) ==
    /\ calls[c].pc = "PROBED" /\ calls[c].resp.ok
    /\ \E n \in DOMAIN calls[c].resp.probes : calls[c].resp.probes[n] = "failed"
    /\ calls'[c] # calls[c]

\* C12: a refresh with a failed probe still ends without an error notice
\* and installs every node of the list; each online node carries what its
\* own probe returned, null for a failed one.
C12_ProbeFailureNotFatal ==
    [][\A c \in Slots :
          ProbeFailed(c)
          => LET resp == calls[c].resp
             IN  /\ loading' = FALSE
                 /\ \A i \in 1..Len(alerts') : alerts'[i].type # "error"
                 /\ Len(nodes') = Len(resp.nodes)
                 /\ \A i \in 1..Len(resp.nodes) :
                       /\ nodes'[i].id = resp.nodes[i].id
                       /\ nodes'[i].allocations = resp.nodes[i].allocations
                       /\ nodes'[i].isOnline = resp.nodes[i].isOnline
                       /\ nodes'[i].isOnline
                          => nodes'[i].systemState =
                               (IF resp.probes[nodes'[i].id] = "failed" THEN "null"
                                ELSE resp.probes[nodes'[i].id])]_vars

\* A refresh has ended in which one probe failed and another succeeded.
C12_Witness ==
    /\ ~loading /\ alerts = <<>>
    /\ \E i, j \in 1..Len(nodes) :
          /\ nodes[i].isOnline /\ nodes[i].systemState = "null"
          /\ nodes[j].isOnline /\ nodes[j].systemState = "state"

\* The status badge of the node table and of the node overview.
StatusBadge(node) == IF node.isOnline THEN "Online" ELSE "Offline"

\* C13: a node whose probe failed is not presented as Online, in the table
\* or in the overview.
C13_FailedProbeNotOnline ==
    /\ \A i \in 1..Len(nodes) :
          nodes[i].systemState = "null" => StatusBadge(nodes[i]) # "Online"
    /\ (view = "view" /\ selectedNode.systemState = "null")
       => StatusBadge(selectedNode) # "Online"

\* What one server commits of a resource.
Amount(server, resource) ==
    CASE resource = "cpu" -> server.cpuPercent
      [] resource = "memory" -> server.memoryMiB * 1048576
      [] resource = "disk" ->
            IF server.diskMiB = Absent THEN 0 ELSE server.diskMiB[1] * 1048576

\* The sum of a resource over the servers of the list bound to node n.
RECURSIVE Committed(_, _, _)
Committed(serversList, n, resource) ==
    IF serversList = <<>> THEN 0
    ELSE (IF Head(serversList).node = n THEN Amount(Head(serversList), resource) ELSE 0)
         + Committed(Tail(serversList), n, resource)

\* C14: after fetchData every node's resources are the sums of cpuPercent,
\* memoryMiB * 1024 * 1024 and (diskMiB or 0) * 1024 * 1024 over exactly the
\* servers bound to it.
C14_ResourcesAreSums ==
    [][\A c \in Slots :
          (calls[c].pc = "PROBED" /\ calls[c].resp.ok /\ calls'[c] # calls[c])
          => \A i \in 1..Len(nodes') :
                nodes'[i].resources =
                   <<[cpuAllocated |-> Committed(calls[c].resp.servers, nodes'[i].id, "cpu"),
                      memoryAllocated |->
                          Committed(calls[c].resp.servers, nodes'[i].id, "memory"),
                      diskAllocated |->
                          Committed(calls[c].resp.servers, nodes'[i].id, "disk")]>>]_vars

\* A refresh has ended whose server list binds a server to each of two
\* nodes, one of them without a disk figure.
C14_Witness ==
    /\ ~loading /\ Len(nodes) = Cardinality(NodeIds)
    /\ Len(srvServers) = 2 /\ srvServers[1].node # srvServers[2].node
    /\ srvServers[1].diskMiB = Absent /\ srvServers[2].diskMiB # Absent
    /\ \A i \in 1..Len(nodes) : nodes[i].resources[1].cpuAllocated > 0

----------------------------------------------------------------------------
(* A pool that can be emptied.                                             *)

\* Node 1 holds one allocation more than a page, none of them bound.
DrainPool ==
    [n \in NodeIds |->
        IF n = 1 THEN [i \in 1..(PageLimit + 1) |-> Installed(i, FALSE)]
        ELSE <<>>]

\* The list is loaded and the allocations tab of node 1 is open.
DrainInit ==
    /\ srvNodes = NodeIds
    /\ srvPool = DrainPool
    /\ srvServers \in ServerLists
    /\ nodes = nodesWithState([NoResp EXCEPT !.nodes = NodesData, !.servers = srvServers],
                              [n \in OnlineNodes |-> "state"])
    /\ loading = FALSE
    /\ view = "view"
    /\ selectedNode = nodes[1]
    /\ activeTab = "allocations"
    /\ selectedAllocations = <<>>
    /\ alerts = <<>>
    /\ allocationPagination =
          [page |-> 1, limit |-> PageLimit, total |-> Len(DrainPool[1])]
    /\ FormInit
    /\ ElsewhereInit
    /\ calls = [c \in Slots |-> NoCall]

DrainNext ==
    \/ \E page \in 1..Cardinality(AllocIds) : handlePageChange(page)
    \/ \E id \in AllocIds : toggleAllocation(id)
    \/ \E id \in AllocIds : Idle /\ ClickDeleteAllocation(id)
    \/ Idle /\ handleDeleteSelected
    \/ \E c \in Slots : ServerDeleteAllocation(c)
    \/ \E c \in Slots : Quiet /\ DeleteAllocationDone(c)
    \/ \E c \in Slots : ServerGetNode(c)
    \/ \E c \in Slots : Quiet /\ GetNodeDone(c)
    \/ AlertExpire

DrainSpec == DrainInit /\ [][DrainNext]_vars

\* C15: the number of pages is ceil(total / limit) and at least 1, where the
\* paging controls are drawn and where a completed deletion clamps the page.
C15_TotalPagesAtLeastOne ==
    [][/\ totalPages(allocationPagination')
            = Max(1, Ceil(allocationPagination'.total, allocationPagination'.limit))
       /\ \A c \in Slots :
             (DeleteCompleted(c) /\ calls[c].resp.ok)
             => LET newTotal == Len(calls[c].resp.nodes[1].allocations)
                IN  clampTotalPages(newTotal, calls[c].limit)
                       = Max(1, Ceil(newTotal, calls[c].limit))]_vars

----------------------------------------------------------------------------
(* The paging control.                                                     *)

\* The page numbers of the numbered buttons, left to right.
ShownPages(pag) == [i \in 1..Min(5, totalPages(pag)) |-> pageNum(pag, i - 1)]

\* The paging control is on screen.
PaginationShown == AllocationTabShown /\ Len(selectedNode.allocations) > 0

\* C16: the paging control shows min(5, totalPages) consecutive pages within
\* 1..totalPages with the current page among them: current-2..current+2
\* when that fits, else the first or the last five.
C16_PageButtonsAroundCurrent ==
    PaginationShown
    => LET pag   == allocationPagination
           pages == totalPages(pag)
           shown == ShownPages(pag)
       IN  /\ Len(shown) = Min(5, pages)
           /\ \A i \in 1..Len(shown) : shown[i] \in 1..pages
           /\ \A i \in 1..(Len(shown) - 1) : shown[i + 1] = shown[i] + 1
           /\ \E i \in 1..Len(shown) : shown[i] = pag.page
           /\ IF pag.page - 2 >= 1 /\ pag.page + 2 <= pages
              THEN shown[1] = pag.page - 2
              ELSE shown[1] = 1 \/ shown[Len(shown)] = pages

----------------------------------------------------------------------------
(* The partition of the allocations tab.                                   *)

\* sub can be had from s by leaving elements out.
RECURSIVE IsSubsequence(_, _)
IsSubsequence(sub, s) ==
    IF sub = <<>> THEN TRUE
    ELSE IF s = <<>> THEN FALSE
    ELSE IF Head(sub) = Head(s) THEN IsSubsequence(Tail(sub), Tail(s))
    ELSE IsSubsequence(sub, Tail(s))

\* C17: the assigned and the unassigned list of the selected node are
\* disjoint, hold every allocation exactly once between them and keep the
\* order of the node's allocation list.
C17_PartitionIsStableSplit ==
    selectedNode # NoNode
    => LET allocations == selectedNode.allocations
           assigned    == assignedAllocations(allocations)
           unassigned  == unassignedAllocations(allocations)
       IN  /\ Range(assigned) \cap Range(unassigned) = {}
           /\ Range(assigned) \cup Range(unassigned) = Range(allocations)
           /\ Len(assigned) + Len(unassigned) = Len(allocations)
           /\ \A a \in Range(assigned) : a.assigned
           /\ \A a \in Range(unassigned) : ~a.assigned
           /\ IsSubsequence(assigned, allocations)
           /\ IsSubsequence(unassigned, allocations)

\* The selected node's list alternates free and bound allocations, two of
\* each.
C17_Witness ==
    /\ selectedNode # NoNode
    /\ Len(selectedNode.allocations) = 4
    /\ \A i \in 1..4 : selectedNode.allocations[i].assigned = (i \in {2, 4})
    /\ activeTab = "allocations"

----------------------------------------------------------------------------
(* Notices.                                                                *)

\* The timer of every notice fires.
FairNodeSpec == NodeSpec /\ WF_vars(AlertExpire)

\* A notice with id k is on screen.
OnScreen(k) == \E i \in 1..Len(alerts) : alerts[i].id = k

\* C18: every notice is eventually off the alerts list, and a step that
\* takes notices off the list changes nothing else of the page.
C18_NoticesAreTransient ==
    /\ \A k \in 1..MaxAlerts : OnScreen(k) ~> ~OnScreen(k)
    /\ [][Len(alerts') < Len(alerts)
          => UNCHANGED <<nodes, loading, view, selectedNode, activeTab,
                         selectedAllocations, allocationPagination,
                         allocationFormData, allocationFormMode,
                         allocationFormError, isCreatingAllocation, calls>>]_vars

\* The older of two notices raised at different moments is gone and the
\* newer one is still up.
C18_Witness ==
    /\ Len(alerts) = 1 /\ alerts[1].id = 2
----------------------------------------------------------------------------
(* Creating allocations on an opened node.                                 *)

\* The page after its first load, a click on row i of the node table and a
\* click on the "Allocations" tab.
Opened(i) ==
    /\ srvNodes = NodeIds
    /\ srvPool = InitPool
    /\ srvServers \in ServerLists
    /\ nodes = nodesWithState([NoResp EXCEPT !.nodes = NodesData, !.servers = srvServers],
                              [n \in OnlineNodes |-> "state"])
    /\ loading = FALSE
    /\ view = "view"
    /\ selectedNode = nodes[i]
    /\ activeTab = "allocations"
    /\ selectedAllocations = <<>>
    /\ alerts = <<>>
    /\ allocationPagination =
          [page |-> 1, limit |-> PageLimit, total |-> Len(nodes[i].allocations)]
    /\ FormInit
    /\ ElsewhereInit
    /\ calls = [c \in Slots |-> NoCall]

\* Node 1 is opened: each port is taken on 0.0.0.0 and free on 127.0.0.1.
RangeInit == Opened(1)

RangeNext ==
    \/ \E mode \in {"single", "range"} : setAllocationFormMode(mode)
    \/ \E address \in BindAddresses : EditBindAddress(address)
    \/ \E port \in Ports : EditStartPort(port)
    \/ \E port \in Ports : EditEndPort(port)
    \/ dismissAllocationFormError
    \/ Idle /\ SubmitCreateAllocation
    \/ \E c \in Slots : ServerCreateAllocation(c)
    \/ \E c \in Slots : Quiet /\ CreateAllocationDone(c)
    \/ \E c \in Slots : ServerGetNode(c)
    \/ \E c \in Slots : Quiet /\ CreateGetNodeDone(c)
    \/ AlertExpire

RangeSpec == RangeInit /\ [][RangeNext]_vars
\* The POST of call c is answered in this step, with success, to a range
\* request.
RangeCreated(c) ==
    /\ calls[c].kind = "handleCreateAllocation"
    /\ calls[c].pc = "POST" /\ calls'[c].pc = "POSTED"
    /\ calls'[c].resp.ok
    /\ calls[c].body.portRange # Absent

\* The ports of the range of call c that pool lacks on the call's address.
Missing(pool, c) ==
    {port \in calls[c].body.portRange[1].start..calls[c].body.portRange[1].end :
        ~Present(pool, calls[c].body.bindAddress, port)}

\* C19: createRange is safely repeatable.  No pool ever holds two
\* allocations with the same (bindAddress, port); a range request that
\* succeeds adds exactly one allocation for each port of the range the pool
\* lacked on that address and leaves none of them lacking, so that the
\* identical request made again adds nothing (25565-25567 on an address
\* without allocations adds 3, the second call 0).
C19_CreateRangeRepeatable ==
    /\ [](\A n \in NodeIds : \A i, j \in 1..Len(srvPool[n]) :
            (/\ srvPool[n][i].bindAddress = srvPool[n][j].bindAddress
             /\ srvPool[n][i].port = srvPool[n][j].port) => i = j)
    /\ [][\A c \in Slots : RangeCreated(c) =>
            LET n == calls[c].node
            IN  /\ Len(srvPool'[n]) = Len(srvPool[n]) + Cardinality(Missing(srvPool[n], c))
                /\ SubSeq(srvPool'[n], 1, Len(srvPool[n])) = srvPool[n]
                /\ Missing(srvPool'[n], c) = {}
                /\ \A m \in NodeIds \ {n} : srvPool'[m] = srvPool[m]]_vars

\* The range 25565-25567 on 127.0.0.1 has been created with success, its
\* notice is still on screen, and the identical request made again has been
\* answered with success too: the pool holds the three allocations once.
C19_Witness ==
    /\ \E i \in 1..Len(alerts) : alerts[i].message = "Allocation created successfully"
    /\ \E c \in Slots :
          /\ calls[c].kind = "handleCreateAllocation" /\ calls[c].pc = "POSTED"
          /\ calls[c].resp.ok
          /\ calls[c].body = [bindAddress |-> "127.0.0.1", port |-> Absent,
                              portRange |-> <<[start |-> 25565, end |-> 25567]>>]
    /\ SelectSeq(srvPool[1], LAMBDA a : a.bindAddress = "127.0.0.1")
          = <<Allocation(4, "127.0.0.1", 25565, FALSE),
              Allocation(5, "127.0.0.1", 25566, FALSE),
              Allocation(6, "127.0.0.1", 25567, FALSE)>>
----------------------------------------------------------------------------
(* Creating and deleting single allocations of an opened node.             *)

MutateNext ==
    \/ \E port \in Ports : EditPort(port)
    \/ Idle /\ SubmitCreateAllocation
    \/ \E c \in Slots : ServerCreateAllocation(c)
    \/ \E c \in Slots : Quiet /\ CreateAllocationDone(c)
    \/ \E c \in Slots : ServerGetNode(c)
    \/ \E c \in Slots : Quiet /\ CreateGetNodeDone(c)
    \/ \E id \in UsedAllocationIds : Idle /\ ClickDeleteAllocation(id)
    \/ \E c \in Slots : ServerDeleteAllocation(c)
    \/ \E c \in Slots : Quiet /\ DeleteAllocationDone(c)
    \/ \E c \in Slots : Quiet /\ GetNodeDone(c)
    \/ \E page \in 1..Cardinality(AllocIds) : handlePageChange(page)
    \/ dismissAllocationFormError
    \/ AlertExpire

MutateSpec == Opened(1) /\ [][MutateNext]_vars

\* Call c is a create or a delete of an allocation.
IsMutation(c) ==
    \/ calls[c].kind = "handleCreateAllocation"
    \/ calls[c].kind = "handleDeleteAllocation"

\* The response to the mutation request of call c is in.
MutationReturned(c) ==
    \/ calls[c].kind = "handleCreateAllocation" /\ calls[c].pc = "POSTED"
    \/ calls[c].kind = "handleDeleteAllocation" /\ calls[c].pc = "DELETED"

\* This step raises a success notice.
SuccessNoticeRaised ==
    \E i \in 1..Len(alerts') :
        /\ alerts'[i].type = "success"
        /\ \A j \in 1..Len(alerts) : alerts[j].id # alerts'[i].id

\* C20: the dependent read is ordered after the write.  A create or delete
\* call issues its re-fetch of the node (GET /api/nodes/:id) only in the
\* step in which its mutation request has returned with success; the step
\* that handles a failed mutation request issues no re-fetch and raises no
\* success notice.
C20_ReadAfterSuccessfulWrite ==
    [][\A c \in Slots :
          /\ (IsMutation(c)' /\ calls'[c].pc = "GET" /\ calls[c].pc # "GET")
                => (/\ calls[c].kind = calls'[c].kind
                    /\ MutationReturned(c)
                    /\ calls[c].resp.ok)
          /\ (MutationReturned(c) /\ ~calls[c].resp.ok /\ calls'[c] # calls[c])
                => (/\ \A d \in Slots : calls'[d].pc = "GET" => calls[d].pc = "GET"
                    /\ ~SuccessNoticeRaised)]_vars

\* Allocation 2 has been deleted and the node re-fetched; the create of a
\* port that is taken has then been rejected: its error notice is the only
\* one, no call is left and the page shows the pool of the re-fetch.
C20_Witness ==
    /\ \A c \in Slots : calls[c] = NoCall
    /\ Len(alerts) = 1
    /\ alerts[1].type = "error" /\ alerts[1].message = "Conflict"
    /\ allocationFormError = "Conflict"
    /\ ~isCreatingAllocation
    /\ Ids(srvPool[1]) = <<1, 3>>
    /\ selectedNode.allocations = srvPool[1]
----------------------------------------------------------------------------
(* The create form: rejections, the submit button and the request body.    *)

\* The page handles in this step the rejection or failure of the POST of
\* call c.
CreateRejected(c) ==
    /\ calls[c].kind = "handleCreateAllocation" /\ calls[c].pc = "POSTED"
    /\ ~calls[c].resp.ok
    /\ calls'[c] # calls[c]

\* C21: a rejected create submission is surfaced inline and blocks only
\* that submission.  The step that handles the rejection sets
\* allocationFormError to the error's message, leaves the node list, the
\* selected node, the pagination window and the form's data and mode as
\* they are, and re-enables the submit button.
C21_RejectedCreateIsInline ==
    [][\A c \in Slots : CreateRejected(c) =>
          /\ allocationFormError' =
                ErrorMessage(calls[c].resp, "Failed to create allocation")
          /\ allocationFormError' # ""
          /\ UNCHANGED <<nodes, selectedNode, allocationPagination,
                         allocationFormData, allocationFormMode>>
          /\ ~isCreatingAllocation']_vars

\* The range 25567-25565 has been rejected: the error is in the form, the
\* range is still entered and the button is enabled again.
C21_Witness ==
    /\ \A c \in Slots : calls[c] = NoCall
    /\ allocationFormError = "InvalidArgument"
    /\ allocationFormMode = "range"
    /\ allocationFormData.portRange = <<[start |-> 25567, end |-> 25565]>>
    /\ ~isCreatingAllocation
    /\ FormComplete
----------------------------------------------------------------------------
(* Deleting a node: the list and the view afterwards.                      *)

\* handleDelete of call c ends in this step after a DELETE the server
\* accepted: its refresh has settled.
NodeDeleted(c) ==
    /\ calls[c].kind = "handleDelete" /\ calls[c].pc = "PROBED"
    /\ calls'[c] = NoCall

\* C22: when a node deletion succeeds, the node list is refreshed so that
\* the deleted node is no longer in it, and if the deleted node was the
\* selected node the view returns to "list" with no node selected.
C22_DeletedNodeLeavesPage ==
    [][\A c \in Slots : NodeDeleted(c) =>
          /\ FindNode(nodes', calls[c].arg) = NoNode
          /\ selectedNode.id = calls[c].arg
                => (view' = "list" /\ selectedNode' = NoNode)]_vars
----------------------------------------------------------------------------
(* The page of the pagination window.                                      *)

\* C23: whenever the allocations tab is displayed the page of the window
\* lies in 1 .. max(1, ceil(total / limit)).
C23_PageInRange ==
    AllocationTabShown =>
        /\ 1 <= allocationPagination.page
        /\ allocationPagination.page
              <= Max(1, Ceil(allocationPagination.total, allocationPagination.limit))
----------------------------------------------------------------------------
(* Overlapping deletions on an opened allocations tab.                     *)

\* The trash buttons stay enabled while a deletion is in flight: a second
\* deletion may start before the first has ended.
OverlapNext ==
    \/ \E page \in 1..Cardinality(AllocIds) : handlePageChange(page)
    \/ \E id \in AllocIds : ClickDeleteAllocation(id)
    \/ \E c \in Slots : ServerDeleteAllocation(c)
    \/ \E c \in Slots : Quiet /\ DeleteAllocationDone(c)
    \/ \E c \in Slots : ServerGetNode(c)
    \/ \E c \in Slots : Quiet /\ GetNodeDone(c)
    \/ AlertExpire

OverlapSpec == SweepInit /\ [][OverlapNext]_vars

\* C24: when operations that re-fetch the selected node overlap, then once
\* all of them have completed the selected node's allocation list and the
\* pagination total equal the server's pool.  Stated for the case most
\* favourable to the page: the last call to complete had its DELETE and its
\* re-fetch answered with success.
C24_OverlappingRefetchesConverge ==
    [][\A c \in Slots :
          (/\ DeleteCompleted(c) /\ calls[c].resp.ok
           /\ \A d \in Slots : calls'[d] = NoCall)
          => /\ selectedNode'.allocations = srvPool'[calls[c].node]
             /\ allocationPagination'.total = Len(srvPool'[calls[c].node])]_vars
----------------------------------------------------------------------------
(* Editing and deleting nodes while navigating.                            *)

EditNext ==
    \/ \E i \in 1..Cardinality(NodeIds) : SelectNode(i)
    \/ Back
    \/ EditFromView
    \/ \E i \in 1..Cardinality(NodeIds) : EditFromRow(i)
    \/ CancelEdit
    \/ Idle /\ SubmitEdit
    \/ \E c \in Slots : ServerPatchNode(c)
    \/ \E c \in Slots : Quiet /\ PatchNodeDone(c)
    \/ \E c \in Slots : ServerList(c)
    \/ \E c \in Slots : ProbesSettle(c)
    \/ \E c \in Slots : Quiet /\ EditFetchDataDone(c)
    \/ \E c \in Slots : ServerGetNode(c)
    \/ \E c \in Slots : Quiet /\ EditGetNodeDone(c)
    \/ \E n \in NodeIds : Idle /\ ClickDeleteNode(n)
    \/ \E c \in Slots : ServerDeleteNode(c)
    \/ \E c \in Slots : Quiet /\ DeleteNodeDone(c)
    \/ \E c \in Slots : Quiet /\ FetchDataDone(c)
    \/ AlertExpire

EditSpec == Loaded /\ [][EditNext]_vars

\* C25: whenever the view is "view" or "edit" a node is selected.
C25_ViewHasSelectedNode ==
    view \in {"view", "edit"} => selectedNode # NoNode
----------------------------------------------------------------------------
(* The submit button of the create form.                                   *)

\* Submissions are held back by the button alone.
SubmitNext ==
    \/ \E tab \in Tabs : setActiveTab(tab)
    \/ \E address \in BindAddresses : EditBindAddress(address)
    \/ \E port \in Ports : EditPort(port)
    \/ SubmitCreateAllocation
    \/ \E c \in Slots : ServerCreateAllocation(c)
    \/ \E c \in Slots : Quiet /\ CreateAllocationDone(c)
    \/ \E c \in Slots : ServerGetNode(c)
    \/ \E c \in Slots : Quiet /\ CreateGetNodeDone(c)
    \/ dismissAllocationFormError
    \/ AlertExpire

SubmitSpec == Opened(1) /\ [][SubmitNext]_vars

\* The calls of handleCreateAllocation that have not ended.
CreatesPending == {c \in Slots : calls[c].kind = "handleCreateAllocation"}

\* C26: at most one create-allocation submission is pending at any time,
\* and isCreatingAllocation is true exactly while one is: from the click
\* until its POST and, after a success, its re-fetch have been handled,
\* whether the submission succeeded or failed.
C26_OneCreateAtATime ==
    /\ Cardinality(CreatesPending) <= 1
    /\ isCreatingAllocation <=> CreatesPending # {}

\* The re-fetch of an accepted create is answered and not yet handled, the
\* button is still disabled and the form is complete.
C26_Witness ==
    /\ \E c \in Slots : /\ calls[c].kind = "handleCreateAllocation"
                        /\ calls[c].pc = "GOT"
    /\ isCreatingAllocation
    /\ AllocationTabShown /\ FormComplete /\ FreeSlots # {}
----------------------------------------------------------------------------
(* The identity of notices.                                                *)

\* C27: the ids of the notices in the alerts list are pairwise distinct, so
\* that dismissing one or the expiry of its timer removes that notice only.
C27_AlertIdsDistinct ==
    \A i, j \in 1..Len(alerts) : alerts[i].id = alerts[j].id => i = j

----------------------------------------------------------------------------
(* The search widget.                                                      *)

\* The nodes page is not re-rendered by a step of another component.
UNCHANGED_NODES_PAGE ==
    /\ UNCHANGED_SERVER
    /\ UNCHANGED_FORM
    /\ UNCHANGED <<nodes, loading, view, selectedNode, activeTab,
                   selectedAllocations, alerts, allocationPagination, calls>>

\* The lists GET /api/servers may answer the widget with.
SearchLists == {SubSeq(SearchCatalog, 1, n) : n \in 0..Len(SearchCatalog)}

\* fetchServers ends: with the list, which the filter effect then passes
\* over, or with an error that is only logged.
FetchServersDone ==
    /\ searchBar.loading
    /\ \/ \E data \in SearchLists :
             searchBar' = filterEffect([searchBar EXCEPT !.servers = data,
                                                         !.loading = FALSE])
       \/ searchBar' = [searchBar EXCEPT !.loading = FALSE]
    /\ UNCHANGED formData
    /\ UNCHANGED_NODES_PAGE

\* setQuery and the filter effect that follows a changed query.
setQuery(sb, q) ==
    IF q = sb.query THEN sb ELSE filterEffect([sb EXCEPT !.query = q])

toggleSearch ==
    /\ searchBar' = [searchBar EXCEPT !.isOpen = ~@]
    /\ UNCHANGED formData
    /\ UNCHANGED_NODES_PAGE

\* Escape, or a click outside the widget.
CloseSearch ==
    /\ searchBar.isOpen
    /\ searchBar' = [searchBar EXCEPT !.isOpen = FALSE]
    /\ UNCHANGED formData
    /\ UNCHANGED_NODES_PAGE

\* The input's onChange.
EditQuery(q) ==
    /\ searchBar.isOpen
    /\ q # searchBar.query
    /\ searchBar' = setQuery(searchBar, q)
    /\ UNCHANGED formData
    /\ UNCHANGED_NODES_PAGE

\* The clear button, drawn while the query is not empty.
ClearQuery ==
    /\ searchBar.isOpen
    /\ searchBar.query # <<>>
    /\ searchBar' = setQuery(searchBar, <<>>)
    /\ UNCHANGED formData
    /\ UNCHANGED_NODES_PAGE

\* handleSearchKeyDown, key ArrowDown.
ArrowDown ==
    /\ searchBar.isOpen
    /\ searchBar' =
          [searchBar EXCEPT
              !.selectedIndex = Min(@ + 1, Len(searchBar.filteredServers) - 1)]
    /\ UNCHANGED formData
    /\ UNCHANGED_NODES_PAGE

\* handleSearchKeyDown, key ArrowUp.
ArrowUp ==
    /\ searchBar.isOpen
    /\ searchBar' = [searchBar EXCEPT !.selectedIndex = Max(@ - 1, 0)]
    /\ UNCHANGED formData
    /\ UNCHANGED_NODES_PAGE

\* undefined, where a server is expected.
Undefined == SearchServer(0, <<>>, <<>>)

\* filteredServers[index] of a JavaScript array: undefined off its ends.
At(list, index) ==
    IF index >= 0 /\ index < Len(list) THEN list[index + 1] ELSE Undefined

\* handleServerSelect: reading server.id of undefined throws before
\* navigate is called and before any state is set.
handleServerSelect(sb, server) ==
    IF server = Undefined
    THEN [sb EXCEPT !.route = "TypeError"]
    ELSE setQuery([sb EXCEPT !.route = "server", !.isOpen = FALSE], <<>>)

\* handleSearchKeyDown, key Enter.
EnterKey ==
    /\ searchBar.isOpen
    /\ Len(searchBar.filteredServers) > 0
    /\ searchBar' =
          handleServerSelect(searchBar,
                             At(searchBar.filteredServers, searchBar.selectedIndex))
    /\ UNCHANGED formData
    /\ UNCHANGED_NODES_PAGE

\* A click on a row of the list, drawn once loading is over.
ClickServer(i) ==
    /\ searchBar.isOpen
    /\ ~searchBar.loading
    /\ i \in 1..Len(searchBar.filteredServers)
    /\ searchBar' = handleServerSelect(searchBar, searchBar.filteredServers[i])
    /\ UNCHANGED formData
    /\ UNCHANGED_NODES_PAGE

SearchNext ==
    \/ FetchServersDone
    \/ toggleSearch
    \/ CloseSearch
    \/ \E q \in Queries : EditQuery(q)
    \/ ClearQuery
    \/ ArrowDown
    \/ ArrowUp
    \/ EnterKey
    \/ \E i \in 1..Len(SearchCatalog) : ClickServer(i)

SearchSpec == Loaded /\ [][SearchNext]_vars

\* C28: whenever the filtered list is not empty, selectedIndex is one of its
\* indices, so that Enter navigates to a server of the list.
C28_SelectedIndexValid ==
    Len(searchBar.filteredServers) > 0 =>
        /\ 0 <= searchBar.selectedIndex
        /\ searchBar.selectedIndex < Len(searchBar.filteredServers)
        /\ searchBar.route # "TypeError"

----------------------------------------------------------------------------
(* The create form: mode switches, field edits and submissions.            *)

\* What an edit may leave in a number input: a port, or nothing.
PortInputs == Ports \union {NaN}

FormNext ==
    \/ \E mode \in {"single", "range"} : setAllocationFormMode(mode)
    \/ \E port \in PortInputs : EditPort(port)
    \/ \E port \in PortInputs : EditStartPort(port)
    \/ \E port \in PortInputs : EditEndPort(port)
    \/ dismissAllocationFormError
    \/ Idle /\ SubmitCreateAllocation
    \/ \E c \in Slots : ServerCreateAllocation(c)
    \/ \E c \in Slots : Quiet /\ CreateAllocationDone(c)
    \/ \E c \in Slots : ServerGetNode(c)
    \/ \E c \in Slots : Quiet /\ CreateGetNodeDone(c)
    \/ AlertExpire

\* Node 2 is opened: its pool is empty, so that a create may succeed.
FormSpec == Opened(2) /\ [][FormNext]_vars

\* The request body JSON.stringify writes for the form data carries the
\* field of this mode and not the other one: an undefined field is left out.
CarriesOnly(body, mode) ==
    /\ mode = "single" => body.port # Absent /\ body.portRange = Absent
    /\ mode = "range" => body.portRange # Absent /\ body.port = Absent

\* Call c is submitted in this step.
Submitted(c) ==
    /\ calls[c] = NoCall
    /\ calls'[c].kind = "handleCreateAllocation"

\* handleCreateAllocation of call c ends in this step after a creation the
\* server accepted.
CreateSucceeded(c) ==
    /\ calls[c].kind = "handleCreateAllocation" /\ calls[c].pc = "GOT"
    /\ calls'[c] = NoCall

\* C29: a submitted create request carries exactly one of port and
\* portRange, the one of the form mode at submission, whatever mode switches
\* and field edits came before; when a creation has succeeded the form is
\* back to bind address 0.0.0.0, single mode, and neither field set.
C29_RequestMatchesMode ==
    [][\A c \in Slots :
          /\ Submitted(c) =>
                /\ CarriesOnly(calls'[c].body, allocationFormMode)
                /\ (calls'[c].body.port = Absent) # (calls'[c].body.portRange = Absent)
          /\ CreateSucceeded(c) =>
                /\ allocationFormData' = [bindAddress |-> "0.0.0.0",
                                          port |-> Absent, portRange |-> Absent]
                /\ allocationFormMode' = "single"]_vars

\* A range request is in flight after an earlier creation has succeeded and
\* reset the form.
C29_Witness ==
    \E c \in Slots :
        /\ calls[c].kind = "handleCreateAllocation" /\ calls[c].pc = "POST"
        /\ calls[c].body.portRange # Absent
        /\ allocationFormMode = "range"
        /\ Len(srvPool[2]) > 0

----------------------------------------------------------------------------
(* The permission checkboxes of the users page's form.                     *)

\* The toggle adds the permission whether or not the list holds it.
ToggleAlwaysAdds(prevData, permission) ==
    [prevData EXCEPT !.permissions = Append(@, permission)]

\* The updater togglePermission hands to setFormData.
togglePermission(prevData, permission) ==
    IF permission \in Range(prevData.permissions)
    THEN [prevData EXCEPT
             !.permissions = SelectSeq(@, LAMBDA p : p # permission)]
    ELSE [prevData EXCEPT !.permissions = Append(@, permission)]

\* A click on the checkbox of a permission.
TogglePermission(permission) ==
    /\ formData' = togglePermission(formData, permission)
    /\ UNCHANGED searchBar
    /\ UNCHANGED_NODES_PAGE

UsersNext == \E permission \in availablePermissions : TogglePermission(permission)

UsersSpec == Loaded /\ [][UsersNext]_vars

\* The permissions of the form, as a set.
Granted(data) == Range(data.permissions)

\* C30: from a list without duplicates, every toggle leaves the list without
\* duplicates, flips the membership of the toggled permission and of no
\* other, and a second toggle of the same permission gives back the original
\* set.
C30_ToggleFlipsOne ==
    [][\A p \in availablePermissions :
          formData' = togglePermission(formData, p) =>
             /\ Cardinality(Granted(formData')) = Len(formData'.permissions)
             /\ (p \in Granted(formData')) # (p \in Granted(formData))
             /\ \A q \in availablePermissions \ {p} :
                   (q \in Granted(formData')) = (q \in Granted(formData))
             /\ Granted(togglePermission(formData', p)) = Granted(formData)]_vars

\* "View Servers" was unchecked and checked again: the set is the initial
\* one, the permission now last in the list.
C30_Witness ==
    formData.permissions = <<"SERVERS_MANAGE", "SERVERS_VIEW">>

============================================================================
